---------------------------- MODULE Spec2Model ----------------------------
(***************************************************************************)
(* A model of the documentation example tester (src/tools/test-api-docs.py *)
(* with its helpers in src/tools/doc_test_utils.py and                     *)
(* src/tools/schema_validator.py).                                         *)
(*                                                                         *)
(* Python strings are sequences of chunks: every character that comes from *)
(* data (a key, a digit of a formatted number, a character of a testable   *)
(* entry) is a chunk of its own, and a literal fragment of an f-string is  *)
(* one chunk.  String concatenation is \o.                                 *)
(***************************************************************************)
EXTENDS Integers, Sequences, FiniteSets, TLC

VARIABLES
    cmp_actual,     \* compare_json_objects: argument actual
    cmp_expected,   \* compare_json_objects: argument expected
    cmp_path,       \* compare_json_objects: argument path
    cmp_done,       \* whether the call has returned
    cmp_result      \* the returned (are_equal, differences)

cmpVars == <<cmp_actual, cmp_expected, cmp_path, cmp_done, cmp_result>>

VARIABLES
    file,           \* the markdown file and what its sections hold (input)
    pc,             \* the statement main / test_file / test_example is at
    tf,             \* the locals of test_file
    ex,             \* the locals of the test_example call in progress (or last)
    diags,          \* the lines logged since test_file or the current
                    \* test_example call was entered
    fstate,         \* the orchestration state of the file (spec 4.6)
    outcomes,       \* per testable entry handled so far: what became of it
    raised,         \* the exception that left test_file ("" for none)
    exit_code,      \* the exit status of the process (-1 while it runs)
    schema_cache    \* _SCHEMA_CACHE: schema path -> loaded schema

runVars == <<file, pc, tf, ex, diags, fstate, outcomes, raised, exit_code,
             schema_cache>>

VARIABLES
    call_fn,        \* the function a specification of one call applies
    call_args,      \* its arguments (input)
    call_done,      \* whether the call has returned
    call_result,    \* what it returned
    schema_disk,    \* the schema files: path -> what open() and json.load()
                    \* make of the file
    reads           \* path -> the times load_schema has read the file since
                    \* the cache was cleared

callVars == <<call_fn, call_args, call_done, call_result, schema_disk,
              reads>>

vars == <<cmpVars, runVars, callVars>>

-----------------------------------------------------------------------------
(* Bounds of the model *)

\* longest list / largest dict of scalars among the comparator's inputs
MaxLen == 2

\* longest list / largest dict of nested values among the comparator's inputs
MaxNest == 1

\* most entries of a testable list
MaxEntries == 2

\* most violations the schema validator reports for one front matter
MaxViolations == 2

\* most status codes written in a testable entry
MaxCodes == 2

\* most lines of a document given to parse_front_matter_with_errors
MaxLines == 4

\* most lines of a fenced block in a document given to a section locator
MaxBlock == 2

\* most reads of one schema file by load_schema between two clears
MaxReads == 2

\* the items of the longest compared list
MaxItems == 12

-----------------------------------------------------------------------------
(* Generic helpers *)

\* no call of a function by itself is under way
NoCall ==
    /\ call_fn = ""
    /\ call_args = <<>>
    /\ call_done = TRUE
    /\ call_result = <<>>
    /\ schema_disk = <<>>
    /\ reads = <<>>

SeqsUpTo(S, n) == UNION {[1..k -> S] : k \in 0..n}

Range(s) == {s[i] : i \in DOMAIN s}

NoDup(s) == \A i, j \in DOMAIN s : i # j => s[i] # s[j]

RECURSIVE Concat(_)
\* the concatenation of a sequence of sequences
Concat(ss) == IF ss = <<>> THEN <<>> ELSE Head(ss) \o Concat(Tail(ss))

\* one decimal digit as a character
DigitChar(d) == <<"0", "1", "2", "3", "4", "5", "6", "7", "8", "9">>[d + 1]

RECURSIVE IntToStr(_)
\* str(n) / f"{n}" for an int n
IntToStr(n) ==
    IF n < 0 THEN <<"-">> \o IntToStr(-n)
    ELSE IF n < 10 THEN <<DigitChar(n)>>
    ELSE IntToStr(n \div 10) \o <<DigitChar(n % 10)>>

\* whether the string sub occurs in the string s (Python: sub in s)
Contains(s, sub) ==
    \E i \in 0..(Len(s) - Len(sub)) :
        \A j \in 1..Len(sub) : s[i + j] = sub[j]

-----------------------------------------------------------------------------
(* Python values (the results of json.loads and yaml.safe_load)            *)
(*                                                                         *)
(* A value carries the name of its Python type (type(v).__name__).  An int *)
(* has the payload s, a str its characters chars.  A list has items; a     *)
(* dict has keys (strings, in insertion order) and the items under them.   *)
(* None is the value of type NoneType.                                     *)

Scalar(t, s, chars) ==
    [t |-> t, s |-> s, chars |-> chars, keys |-> <<>>, items |-> <<>>]
JInt(n) == Scalar("int", n, <<>>)
JStr(chars) == Scalar("str", 0, chars)
None == Scalar("NoneType", 0, <<>>)
JList(items) ==
    [t |-> "list", s |-> 0, chars |-> <<>>, keys |-> <<>>, items |-> items]
JDict(keys, items) ==
    [t |-> "dict", s |-> 0, chars |-> <<>>, keys |-> keys, items |-> items]

\* key in d
HasKey(d, key) == \E i \in DOMAIN d.keys : d.keys[i] = key

\* d[key]
Lookup(d, key) == d.items[CHOOSE i \in DOMAIN d.keys : d.keys[i] = key]

\* f"{v}" for a scalar v
FormatScalar(v) ==
    IF v.t = "NoneType" THEN <<"None">>
    ELSE IF v.t = "str" THEN v.chars
    ELSE IntToStr(v.s)

-----------------------------------------------------------------------------
(* String operations *)

Whitespace == {" ", "\t", "\n", "\r"}

Digits == {"0", "1", "2", "3", "4", "5", "6", "7", "8", "9"}

RECURSIVE LStrip(_)
LStrip(s) ==
    IF s # <<>> /\ Head(s) \in Whitespace THEN LStrip(Tail(s)) ELSE s

RECURSIVE RStrip(_)
RStrip(s) ==
    IF s # <<>> /\ s[Len(s)] \in Whitespace
      THEN RStrip(SubSeq(s, 1, Len(s) - 1)) ELSE s

\* a strip that leaves the whitespace at the end
StripAtFrontOnly(s) == LStrip(s)

\* s.strip()
Strip(s) == RStrip(LStrip(s))

\* s.startswith(prefix)
StartsWith(s, prefix) ==
    /\ Len(prefix) <= Len(s)
    /\ \A j \in 1..Len(prefix) : s[j] = prefix[j]

RECURSIVE SplitFrom(_, _, _)
\* the parts of s.split(sep), given the part being read
SplitFrom(s, sep, part) ==
    IF s = <<>> THEN <<part>>
    ELSE IF Head(s) = sep THEN <<part>> \o SplitFrom(Tail(s), sep, <<>>)
    ELSE SplitFrom(Tail(s), sep, Append(part, Head(s)))

\* s.split(sep) for a separator of one character
Split(s, sep) == SplitFrom(s, sep, <<>>)

\* the value of the decimal digit c
DigitValue(c) == CHOOSE d \in 0..9 : DigitChar(d) = c

RECURSIVE DigitsValue(_, _)
\* the number written by the digits of s (underscores skipped), after acc
DigitsValue(s, acc) ==
    IF s = <<>> THEN acc
    ELSE IF Head(s) = "_" THEN DigitsValue(Tail(s), acc)
    ELSE DigitsValue(Tail(s), 10 * acc + DigitValue(Head(s)))

\* s without the sign int() accepts in front
Unsigned(s) == IF s # <<>> /\ Head(s) \in {"+", "-"} THEN Tail(s) ELSE s

\* whether int(s) returns (it raises ValueError otherwise): an optional
\* sign, then digits, single underscores allowed between digits;
\* surrounding whitespace is ignored
IntAccepts(s) ==
    LET u == Unsigned(Strip(s))
    IN  /\ u # <<>>
        /\ \A i \in DOMAIN u : u[i] \in Digits \cup {"_"}
        /\ u[1] \in Digits
        /\ u[Len(u)] \in Digits
        /\ \A i \in 1..(Len(u) - 1) : ~(u[i] = "_" /\ u[i + 1] = "_")

\* int(s), where it returns
IntOf(s) ==
    LET t == Strip(s)
    IN  IF t # <<>> /\ Head(t) = "-" THEN 0 - DigitsValue(Unsigned(t), 0)
        ELSE DigitsValue(Unsigned(t), 0)

-----------------------------------------------------------------------------
(* parse_testable_entry *)

\* the result (None, None)
Rejected == [name |-> None, codes |-> None]

\* [... for code in codes_str.split(',') if code.strip()]: the tokens kept
CodeTokens(codes_str) ==
    LET tokens == Split(codes_str, ",")
    IN  SelectSeq([i \in DOMAIN tokens |-> Strip(tokens[i])],
                  LAMBDA token : token # <<>>)

\* the call raises (AttributeError: only str has split), which the except
\* clause (ValueError, IndexError) does not catch
ParseEntryRaises(entry) == entry.t # "str"

\* parse_testable_entry(entry) for a str entry
parse_testable_entry(entry) ==
    LET parts == Split(entry.chars, "/")
        example_name == Strip(parts[1])
    IN  IF example_name = <<>> THEN Rejected
        ELSE IF Len(parts) > 1 THEN
          LET codes_str == Strip(parts[2])
              tokens == CodeTokens(codes_str)
          IN  IF codes_str = <<>> THEN Rejected
              ELSE IF \E i \in DOMAIN tokens : ~IntAccepts(tokens[i])
                THEN Rejected                    \* except ValueError
              ELSE IF tokens = <<>> THEN Rejected
              ELSE [name |-> JStr(example_name),
                    codes |-> JList([i \in DOMAIN tokens |->
                                        JInt(IntOf(tokens[i]))])]
        ELSE [name |-> JStr(example_name), codes |-> JList(<<JInt(200)>>)]

-----------------------------------------------------------------------------
(* compare_json_objects *)

\* path or 'root'
PathOrRoot(path) == IF path # <<>> THEN path ELSE <<"root">>

TypeMismatchMsg(actual, expected, path) ==
    <<"Type mismatch at ">> \o PathOrRoot(path) \o <<": expected ", expected.t,
      ", got ", actual.t>>

MissingKeyMsg(path, key) ==
    IF path # <<>> THEN <<"Missing key at ">> \o path \o <<".">> \o key
    ELSE <<"Missing key: ">> \o key

ExtraKeyMsg(path, key) ==
    IF path # <<>> THEN <<"Extra key at ">> \o path \o <<".">> \o key
    ELSE <<"Extra key: ">> \o key

LengthMismatchMsg(actual, expected, path) ==
    <<"List length mismatch at ">> \o PathOrRoot(path) \o <<": expected ">>
      \o IntToStr(Len(expected.items)) \o <<" items, got ">>
      \o IntToStr(Len(actual.items))

ValueMismatchMsg(actual, expected, path) ==
    <<"Value mismatch at ">> \o PathOrRoot(path) \o <<": expected ">>
      \o FormatScalar(expected) \o <<", got ">> \o FormatScalar(actual)

\* a dict branch that loses the parent path of the keys it recurses into
KeyPathDropsParent(path, key) == key

\* new_path of the dict branch
KeyPath(path, key) == IF path # <<>> THEN path \o <<".">> \o key ELSE key

\* a list branch that numbers the items from 1
IndexPathFromOne(path, i) ==
    IF path # <<>> THEN path \o <<"[">> \o IntToStr(i + 1) \o <<"]">>
    ELSE <<"[">> \o IntToStr(i + 1) \o <<"]">>

\* new_path of the list branch; i is the 0-based index
IndexPath(path, i) ==
    IF path # <<>> THEN path \o <<"[">> \o IntToStr(i) \o <<"]">>
    ELSE <<"[">> \o IntToStr(i) \o <<"]">>

RECURSIVE MissingKeys(_, _, _)
\* for key in expected: if key not in actual: differences.append(...)
MissingKeys(ekeys, actual, path) ==
    IF ekeys = <<>> THEN <<>>
    ELSE (IF ~HasKey(actual, Head(ekeys))
            THEN <<MissingKeyMsg(path, Head(ekeys))>> ELSE <<>>)
         \o MissingKeys(Tail(ekeys), actual, path)

\* a dict branch without the loop over the keys of actual
ExtraKeysNotChecked(akeys, expected, path) == <<>>

RECURSIVE ExtraKeys(_, _, _)
\* for key in actual: if key not in expected: differences.append(...)
ExtraKeys(akeys, expected, path) ==
    IF akeys = <<>> THEN <<>>
    ELSE (IF ~HasKey(expected, Head(akeys))
            THEN <<ExtraKeyMsg(path, Head(akeys))>> ELSE <<>>)
         \o ExtraKeys(Tail(akeys), expected, path)

\* the keys the third loop of the dict branch recurses into, in its order
CommonKeys(actual, expected) ==
    SelectSeq(expected.keys, LAMBDA key : HasKey(actual, key))

\* min_len of the list branch
MinLen(actual, expected) ==
    IF Len(actual.items) # Len(expected.items)
      THEN (IF Len(actual.items) < Len(expected.items)
              THEN Len(actual.items) ELSE Len(expected.items))
      ELSE Len(expected.items)

RECURSIVE compare_json_objects(_, _, _)
compare_json_objects(actual, expected, path) ==
    IF actual.t # expected.t
      THEN [are_equal |-> FALSE,
            differences |-> <<TypeMismatchMsg(actual, expected, path)>>]
    ELSE
      LET differences ==
            IF expected.t = "dict" THEN
              LET common == CommonKeys(actual, expected)
              IN  MissingKeys(expected.keys, actual, path)
                  \o ExtraKeys(actual.keys, expected, path)
                  \o Concat([n \in 1..Len(common) |->
                        compare_json_objects(Lookup(actual, common[n]),
                                             Lookup(expected, common[n]),
                                             KeyPath(path, common[n])).differences])
            ELSE IF expected.t = "list" THEN
              (IF Len(actual.items) # Len(expected.items)
                 THEN <<LengthMismatchMsg(actual, expected, path)>> ELSE <<>>)
              \o Concat([n \in 1..MinLen(actual, expected) |->
                    compare_json_objects(actual.items[n], expected.items[n],
                                         IndexPath(path, n - 1)).differences])
            ELSE IF actual.s # expected.s \/ actual.chars # expected.chars
              THEN <<ValueMismatchMsg(actual, expected, path)>>
            ELSE <<>>
      IN [are_equal |-> Len(differences) = 0, differences |-> differences]

-----------------------------------------------------------------------------
(* The inputs of the comparator *)

Keys == {<<"a">>, <<"b">>, <<"k">>}

Atoms == {JInt(1), JInt(2), JStr(<<"1">>), None}

KeySeqs(n) == {ks \in SeqsUpTo(Keys, n) : NoDup(ks)}

ListsOver(S, n) == {JList(items) : items \in SeqsUpTo(S, n)}

DictsOver(S, n) ==
    UNION {{JDict(ks, items) : items \in [1..Len(ks) -> S]} : ks \in KeySeqs(n)}

\* the values nested inside the outer containers
Inner == {JInt(1), JList(<<JInt(1)>>), JList(<<JInt(1), JInt(2)>>),
          JDict(<<>>, <<>>), JDict(<<<<"k">>>>, <<JInt(1)>>)}

JsonValues ==
    Atoms \cup ListsOver(Atoms, MaxLen) \cup DictsOver(Atoms, MaxLen)
          \cup ListsOver(Inner, MaxNest) \cup DictsOver(Inner, MaxNest)

Paths == {<<>>, <<"p">>}

NoResult == [are_equal |-> FALSE, differences |-> <<>>]

InitCompare ==
    /\ cmp_actual \in JsonValues
    /\ cmp_expected \in JsonValues
    /\ cmp_path \in Paths
    /\ cmp_done = FALSE
    /\ cmp_result = NoResult
    /\ file = <<>>
    /\ pc = "idle"
    /\ tf = <<>>
    /\ ex = <<>>
    /\ diags = <<>>
    /\ fstate = "Unread"
    /\ outcomes = <<>>
    /\ raised = ""
    /\ exit_code = -1
    /\ schema_cache = <<>>
    /\ NoCall

\* one call of compare_json_objects(actual, expected, path)
Compare ==
    /\ ~cmp_done
    /\ cmp_result' = compare_json_objects(cmp_actual, cmp_expected, cmp_path)
    /\ cmp_done' = TRUE
    /\ UNCHANGED <<cmp_actual, cmp_expected, cmp_path>>
    /\ UNCHANGED <<runVars, callVars>>

NextCompare == Compare

SpecCompare == InitCompare /\ [][NextCompare]_vars

-----------------------------------------------------------------------------
(* More of Python *)

\* bool(v)
Truthy(v) ==
    IF v.t = "NoneType" THEN FALSE
    ELSE IF v.t = "dict" THEN v.keys # <<>>
    ELSE IF v.t = "list" THEN v.items # <<>>
    ELSE IF v.t = "str" THEN v.chars # <<>>
    ELSE v.s # 0

\* d.get(key, default) for a dict d
Get(d, key, default) == IF HasKey(d, key) THEN Lookup(d, key) ELSE default

\* the values a for loop over v visits: the items of a list, the keys of a
\* dict, the characters of a str
IterItems(v) ==
    IF v.t = "list" THEN v.items
    ELSE IF v.t = "dict" THEN [n \in DOMAIN v.keys |-> JStr(v.keys[n])]
    ELSE [n \in DOMAIN v.chars |-> JStr(<<v.chars[n]>>)]

\* len(v), for the types that have one
PyLen(v) == Len(IterItems(v))

\* x in v for a list v
InList(x, v) == \E n \in DOMAIN v.items : v.items[n] = x

\* ' or '.join(map(str, codes))
RECURSIVE JoinCodes(_)
JoinCodes(codes) ==
    IF codes = <<>> THEN <<>>
    ELSE IF Len(codes) = 1 THEN FormatScalar(codes[1])
    ELSE FormatScalar(codes[1]) \o <<" or ">> \o JoinCodes(Tail(codes))

-----------------------------------------------------------------------------
(* doc_test_utils.log: the console line of a diagnostic *)

Line(level, message) == [level |-> level, message |-> message]

log(lines, level, message) == Append(lines, Line(level, message))

-----------------------------------------------------------------------------
(* schema_validator.py *)

FormatValidators ==
    {"type", "format", "pattern", "minimum", "maximum", "minLength",
     "maxLength"}

RECURSIVE JoinPath(_)
\* '.'.join(str(p) for p in error.absolute_path)
JoinPath(path) ==
    IF path = <<>> THEN <<>>
    ELSE IF Len(path) = 1 THEN path[1]
    ELSE path[1] \o <<".">> \o JoinPath(Tail(path))

\* error.absolute_path[0] in schema.get('required', [])
TopIsRequired(error, schema) ==
    InList(JStr(error.absolute_path[1]),
           Get(schema, <<"required">>, JList(<<>>)))

categorize_validation_error(error, schema) ==
    IF error.validator = "required" THEN
      [is_required |-> TRUE,
       message |-> <<"Required field missing: ">> \o
          (IF \E n \in DOMAIN error.message : error.message[n] = "'"
             THEN Split(error.message, "'")[2] ELSE <<"unknown">>)]
    ELSE IF error.validator = "enum" /\ Len(error.absolute_path) > 0 THEN
      IF TopIsRequired(error, schema)
        THEN [is_required |-> TRUE,
              message |-> <<"Invalid value for required field '">>
                 \o JoinPath(error.absolute_path) \o <<"': ">> \o error.message]
        ELSE [is_required |-> FALSE,
              message |-> <<"Invalid value for optional field '">>
                 \o JoinPath(error.absolute_path) \o <<"': ">> \o error.message]
    ELSE IF error.validator \in FormatValidators THEN
      IF Len(error.absolute_path) > 0 /\ TopIsRequired(error, schema)
        THEN [is_required |-> TRUE,
              message |-> <<"Invalid format for required field '">>
                 \o JoinPath(error.absolute_path) \o <<"': ">> \o error.message]
        ELSE [is_required |-> FALSE,
              message |-> <<"Invalid format for optional field '">>
                 \o JoinPath(error.absolute_path) \o <<"': ">> \o error.message]
    ELSE
      [is_required |-> FALSE,
       message |-> <<"Validation issue in '">>
          \o (IF error.absolute_path # <<>>
                THEN JoinPath(error.absolute_path) ELSE <<"unknown">>)
          \o <<"': ">> \o error.message]

\* what open() and json.load() make of the schema file: kind is "missing",
\* "invalid_json", "unreadable" (open raises another OSError) or "json",
\* and value the decoded document

\* a load that reads the file whatever the cache holds
load_schema_uncached(cache, schema_path, disk) ==
    IF disk.kind = "json"
      THEN [schema |-> disk.value,
            cache |-> (schema_path :> disk.value) @@ cache]
    ELSE [schema |-> None, cache |-> cache]

\* load_schema(schema_path): the returned schema (None on failure) and the
\* cache afterwards
load_schema(cache, schema_path, disk) ==
    IF schema_path \in DOMAIN cache
      THEN [schema |-> cache[schema_path], cache |-> cache]
    ELSE IF disk.kind = "json"
      THEN [schema |-> disk.value,
            cache |-> (schema_path :> disk.value) @@ cache]
    ELSE [schema |-> None, cache |-> cache]

RECURSIVE LogEach(_, _, _, _)
\* for msg in messages: log(f"{prefix}{msg}", level, ...)
LogEach(lines, level, prefix, messages) ==
    IF messages = <<>> THEN lines
    ELSE LogEach(log(lines, level, <<prefix>> \o Head(messages)), level,
                 prefix, Tail(messages))

\* the result without validation: (True, False, [], [])
Skipped(lines, cache) ==
    [raised |-> "", is_valid |-> TRUE, has_warnings |-> FALSE,
     errors |-> <<>>, warnings |-> <<>>, lines |-> lines, cache |-> cache]

\* a validity that tolerates one error
IsValidUpToOneError(errors) == Len(errors) <= 1

\* len(errors) == 0
IsValid(errors) == Len(errors) = 0

\* validate_front_matter_schema(metadata, schema_path, ...) in the
\* environment env: whether jsonschema can be imported, the schema file
\* when load_schema reads it (disk) and when line 208 reads it again
\* (reread), and the violations Draft7Validator(schema).iter_errors(metadata)
\* yields
validate_front_matter_schema(lines, cache, schema_path, env) ==
    IF ~env.jsonschema THEN
      Skipped(log(lines, "warning",
          <<"jsonschema library not installed; run: pip install jsonschema">>),
          cache)
    ELSE
      LET loaded == load_schema(cache, schema_path, env.disk)
          schema == loaded.schema
      IN
      IF schema = None /\ env.reread.kind = "missing" THEN
        Skipped(log(lines, "warning",
            <<"Schema file not found: ">> \o schema_path), loaded.cache)
      ELSE IF schema = None /\ env.reread.kind = "invalid_json" THEN
        Skipped(log(lines, "warning", <<"Invalid JSON schema: ", "<e>">>),
                loaded.cache)
      ELSE IF schema = None /\ env.reread.kind = "unreadable" THEN
        Skipped(log(lines, "warning", <<"Error loading schema: ", "<e>">>),
                loaded.cache)
      ELSE IF schema = None THEN
        \* the file loads the second time too: assert schema is not None
        [raised |-> "AssertionError", is_valid |-> FALSE,
         has_warnings |-> FALSE, errors |-> <<>>, warnings |-> <<>>,
         lines |-> lines, cache |-> loaded.cache]
      ELSE
        LET cats == [n \in DOMAIN env.violations |->
                        categorize_validation_error(env.violations[n], schema)]
            errs == SelectSeq(cats, LAMBDA c : c.is_required)
            warns == SelectSeq(cats, LAMBDA c : ~c.is_required)
            errors == [n \in DOMAIN errs |-> errs[n].message]
            warnings == [n \in DOMAIN warns |-> warns[n].message]
            l1 == IF errors # <<>>
                    THEN log(LogEach(log(lines, "error",
                                 <<"Front matter validation errors found:">>),
                               "error", "  - ", errors),
                             "info", <<"-  Help: ", "front_matter">>)
                    ELSE lines
            l2 == IF warnings # <<>>
                    THEN LogEach(log(l1, "warning",
                                 <<"Front matter validation warnings:">>),
                               "warning", "  - ", warnings)
                    ELSE l1
            l3 == IF errors = <<>> /\ warnings = <<>>
                    THEN log(l2, "success", <<"Front matter validation passed">>)
                    ELSE l2
        IN [raised |-> "", is_valid |-> IsValid(errors),
            has_warnings |-> Len(warnings) > 0, errors |-> errors,
            warnings |-> warnings, lines |-> l3, cache |-> loaded.cache]

-----------------------------------------------------------------------------
(* The section locator, over what the file holds for an example name       *)
(*                                                                         *)
(* file.request[name] says what the scan of extract_curl_command collects  *)
(* for the name: "none" (no heading, or no bash block before the next      *)
(* heading), "blank" (a block of blank lines) or "curl" (a curl command    *)
(* with the {server_url} placeholder).  file.response[name] says what the  *)
(* scan of extract_expected_response collects: kind "none", "malformed"    *)
(* (text json.loads rejects) or "json" with the decoded value.             *)

\* the exception extract_curl_command raises ("" for none): str.replace
\* takes only a str as the new text
ExtractCurlRaises(section, server_url) ==
    IF section # "none" /\ Truthy(server_url) /\ server_url.t # "str"
      THEN "TypeError" ELSE ""

\* extract_curl_command(content, server_url, example_name), where it returns
extract_curl_command(section, server_url) ==
    IF section = "none" THEN None
    ELSE IF section = "blank" THEN JStr(<<>>)
    ELSE JStr(<<"curl -i ">>
              \o (IF Truthy(server_url) THEN server_url.chars
                  ELSE <<"{server_url}">>)
              \o <<"/users">>)

\* extract_expected_response(content, example_name)
extract_expected_response(section) ==
    IF section.kind = "json" THEN section.value   \* json.loads(...)
    ELSE None                                     \* no lines, JSONDecodeError

-----------------------------------------------------------------------------
(* The runs of main: test_file on one file, then the exit *)

CURL_TIMEOUT_SECONDS == 10

MAX_DIFFERENCES_SHOWN == 10

SchemaPath == <<".github/schemas/front-matter-schema.json">>

K(name) == <<name>>

\* the testable entries the files declare: "G", "P / 201,200", "G/x" (a
\* code that is no number) and the YAML integer 200
Entries ==
    {JStr(<<"G">>),
     JStr(<<"P", " ", "/", " ", "2", "0", "1", ",", "2", "0", "0">>),
     JStr(<<"G", "/", "x">>),
     JInt(200)}

\* the example names the sections of the files are keyed by
Names == {<<"G">>, <<"P">>}

\* the values of test.testable
TestableValues ==
    {None, JList(<<>>), JInt(5), JStr(<<"G">>)}
    \cup {JList(es) : es \in SeqsUpTo(Entries, MaxEntries) \ {<<>>}}

\* the values of test.server_url: a URL, or the YAML integer 3000
ServerUrls == {JStr(<<"http://localhost:3000">>), JInt(3000)}

\* the values of the test key
TestValues ==
    {None, JDict(<<>>, <<>>), JList(<<JInt(1)>>),
     JDict(<<K("server_url")>>, <<JStr(<<"http://localhost:3000">>)>>)}
    \cup {JDict(<<K("testable")>>, <<t>>) : t \in TestableValues}
    \cup {JDict(<<K("testable"), K("server_url")>>, <<t, u>>) :
            t \in TestableValues \ {None, JList(<<>>), JInt(5)},
            u \in ServerUrls}

\* the values yaml.safe_load gives for the front matter
MetadataValues ==
    {None, JDict(<<>>, <<>>), JList(<<JInt(1)>>), JStr(<<"x">>),
     JDict(<<K("layout")>>, <<JStr(<<"default">>)>>)}
    \cup {JDict(<<K("layout"), K("test")>>, <<JStr(<<"default">>), t>>) :
            t \in TestValues}

\* the results of parse_front_matter_with_errors(content)
FrontMatterResults ==
    {[metadata |-> None, error |-> e, line |-> 1] :
        e \in {"leading_whitespace", "no_closing_delimiter", "no_front_matter"}}
    \cup {[metadata |-> None, error |-> "yaml", line |-> 3]}
    \cup {[metadata |-> m, error |-> "", line |-> 0] : m \in MetadataValues}

\* whether the front matter reaches the loop over the entries, with a list
\* of entries or something else to iterate over
ReachesEntries(fm) ==
    /\ fm.metadata.t = "dict"
    /\ HasKey(fm.metadata, K("test"))
    /\ Lookup(fm.metadata, K("test")).t = "dict"
    /\ HasKey(Lookup(fm.metadata, K("test")), K("testable"))
    /\ Lookup(Lookup(fm.metadata, K("test")), K("testable")).t \in {"list", "str"}

RequestSections == {"none", "blank", "curl"}

ResponseSections ==
    {[kind |-> "none", value |-> None],
     [kind |-> "malformed", value |-> None],
     [kind |-> "json", value |-> None],
     [kind |-> "json", value |-> JInt(1)]}

\* what a name has in the file: its request section and, where that holds a
\* command, its response section
SectionPairs ==
    {<<r, [kind |-> "none", value |-> None]>> : r \in {"none", "blank"}}
    \cup {<<"curl", d>> : d \in ResponseSections}

NoSections == [n \in Names |-> <<"none", [kind |-> "none", value |-> None]>>]

Files ==
    {[readable |-> FALSE, fm |-> [metadata |-> None, error |-> "", line |-> 0],
      sections |-> NoSections]}
    \cup {[readable |-> TRUE, fm |-> fm, sections |-> NoSections] :
            fm \in {r \in FrontMatterResults : ~ReachesEntries(r)}}
    \cup {[readable |-> TRUE, fm |-> fm, sections |-> sec] :
            fm \in {r \in FrontMatterResults : ReachesEntries(r)},
            sec \in [Names -> SectionPairs]}

\* the violations jsonschema reports: a missing required field, a wrong
\* type in an optional and in a required field, and a root that is no object
Violations ==
    {[validator |-> "required", absolute_path |-> <<>>,
      message |-> <<"'", "title", "'", " is a required property">>],
     [validator |-> "type", absolute_path |-> <<K("tags")>>,
      message |-> <<"1 is not of type 'array'">>],
     [validator |-> "type", absolute_path |-> <<K("layout")>>,
      message |-> <<"1 is not of type 'string'">>],
     [validator |-> "type", absolute_path |-> <<>>,
      message |-> <<"[1] is not of type 'object'">>]}

\* the violations a front matter can have: required applies to mappings
\* only, and a value that is no mapping has no fields
ViolationsOf(metadata) ==
    IF metadata.t = "dict"
      THEN {v \in Violations : v.validator = "required" \/ v.absolute_path # <<>>}
      ELSE {v \in Violations : v.absolute_path = <<>> /\ v.validator # "required"}

TheSchema ==
    JDict(<<K("type"), K("required")>>,
          <<JStr(<<"object">>), JList(<<JStr(K("layout")), JStr(K("title"))>>)>>)

\* the environments of the schema validation
SchemaEnvs(metadata) ==
    {[jsonschema |-> FALSE, disk |-> [kind |-> "json", value |-> TheSchema],
      reread |-> [kind |-> "json", value |-> TheSchema], violations |-> <<>>]}
    \cup {[jsonschema |-> TRUE, disk |-> d, reread |-> d, violations |-> <<>>] :
            d \in {[kind |-> "missing", value |-> None],
                   [kind |-> "invalid_json", value |-> None],
                   [kind |-> "json", value |-> None]}}
    \cup {[jsonschema |-> TRUE, disk |-> [kind |-> "json", value |-> TheSchema],
           reread |-> [kind |-> "json", value |-> TheSchema],
           violations |-> vs] :
            vs \in {s \in SeqsUpTo(ViolationsOf(metadata), MaxViolations) :
                      NoDup(s)}}

\* the response bodies: text json.loads rejects, and the documents null, 1
\* and 2
Bodies ==
    {[text |-> <<"<html>">>, decodes |-> FALSE, value |-> None],
     [text |-> <<"null">>, decodes |-> TRUE, value |-> None],
     [text |-> <<"1">>, decodes |-> TRUE, value |-> JInt(1)],
     [text |-> <<"2">>, decodes |-> TRUE, value |-> JInt(2)]}

ErrorBody(text) == [text |-> text, decodes |-> FALSE, value |-> None]

\* the results (status_code, headers, body) of execute_curl: a failed
\* command with what it wrote to stderr, a timeout, and the responses of the
\* server
ExecResults ==
    {[status_code |-> None, headers |-> None, body |-> ErrorBody(t)] :
        t \in {<<"curl: (7) Failed to connect">>,
               <<"Response is not valid JSON">>,
               <<"Command timed out after ">>
                  \o IntToStr(CURL_TIMEOUT_SECONDS) \o <<" seconds">>}}
    \cup {[status_code |-> JInt(200), headers |-> JStr(<<"HTTP/1.1 200 OK">>),
           body |-> b] : b \in Bodies}
    \cup {[status_code |-> JInt(404),
           headers |-> JStr(<<"HTTP/1.1 404 Not Found">>),
           body |-> [text |-> <<"{}">>, decodes |-> TRUE,
                     value |-> JDict(<<>>, <<>>)]]}

NoTf ==
    [metadata |-> None, error_line |-> 0, test_config |-> None,
     testable |-> <<>>, total_tests |-> 0, passed_tests |-> 0,
     failed_tests |-> 0, ret |-> <<>>, is_valid |-> FALSE,
     has_warnings |-> FALSE, violations |-> <<>>]

NoBody == ErrorBody(<<>>)

\* the locals of test_example before the call has set them; steps lists the
\* stages the call has run, result is "True", "False", "raised" or "" while
\* it runs
NoEx ==
    [example_name |-> None, expected_codes |-> None, curl_cmd |-> None,
     status_code |-> None, body |-> NoBody, decoded |-> FALSE,
     response_json |-> None, expected_json |-> None, are_equal |-> FALSE,
     steps |-> <<>>, executions |-> 0, result |-> "", entry |-> None]

InitRun ==
    /\ file \in Files
    /\ pc = "test_file"
    /\ tf = NoTf
    /\ ex = NoEx
    /\ diags = <<>>
    /\ fstate = "Unread"
    /\ outcomes = <<>>
    /\ raised = ""
    /\ exit_code = -1
    /\ schema_cache = <<>>

\* a return that leaves the failures out
ReturnWithoutFailures(total, passed, failed) ==
    /\ pc' = "returned"
    /\ tf' = [tf EXCEPT !.ret = <<total, passed, 0>>]

\* return total, passed, failed
Return(total, passed, failed) ==
    /\ pc' = "returned"
    /\ tf' = [tf EXCEPT !.ret = <<total, passed, failed>>]

\* an exception leaves test_file
Raise(exception) ==
    /\ pc' = "raised"
    /\ raised' = exception

\* test_file, lines 514-523: the banner, read_markdown_file
ReadFile ==
    /\ pc = "test_file"
    /\ LET banner == log(log(log(<<>>, "info", <<"====">>), "info",
                         <<"Testing file: ", "file_path">>), "info", <<"====">>)
       IN
       IF ~file.readable
         THEN /\ diags' = log(banner, "error",
                     <<"File not found or unreadable: ", "file_path">>)
              /\ fstate' = "ReadFailed"
              /\ Return(0, 0, 0)
         ELSE /\ diags' = banner
              /\ pc' = "front_matter"
              /\ UNCHANGED <<tf, fstate>>
    /\ UNCHANGED <<file, ex, outcomes, raised, exit_code, schema_cache>>

\* test_file, lines 525-531: parse_front_matter_with_errors, not metadata
ParseFrontMatter ==
    /\ pc = "front_matter"
    /\ LET metadata == file.fm.metadata
       IN
       IF ~Truthy(metadata)
         THEN /\ diags' = log(log(diags, "error",
                     <<"Front matter is required for all documentation files">>),
                     "info", <<"-  Help: ", "front_matter">>)
              /\ fstate' = IF file.fm.error = "yaml" THEN "FrontMatterInvalid"
                           ELSE "FrontMatterMissing"
              /\ pc' = "returned"
              /\ tf' = [tf EXCEPT !.ret = <<0, 0, 0>>,
                                  !.error_line = file.fm.line]
         ELSE /\ tf' = [tf EXCEPT !.metadata = metadata,
                                  !.error_line = file.fm.line]
              /\ pc' = "schema"
              /\ UNCHANGED <<diags, fstate>>
    /\ UNCHANGED <<file, ex, outcomes, raised, exit_code, schema_cache>>

\* test_file, lines 533-543: validate_front_matter_schema, is_valid,
\* has_warnings
ValidateSchema ==
    /\ pc = "schema"
    /\ \E env \in SchemaEnvs(tf.metadata) :
         LET r == validate_front_matter_schema(diags, schema_cache, SchemaPath,
                                               env)
         IN  /\ schema_cache' = r.cache
             /\ IF r.raised # ""
                  THEN /\ Raise(r.raised)
                       /\ diags' = r.lines
                       /\ UNCHANGED <<tf, fstate>>
                ELSE IF ~r.is_valid
                  THEN /\ diags' = log(r.lines, "error",
                            <<"Front matter validation failed. Fix errors before testing examples">>)
                       /\ fstate' = "SchemaInvalid"
                       /\ pc' = "returned"
                       /\ tf' = [tf EXCEPT !.ret = <<0, 0, 0>>,
                                           !.violations = env.violations]
                       /\ UNCHANGED raised
                ELSE /\ diags' = IF r.has_warnings
                            THEN log(r.lines, "warning",
                              <<"Front matter has warnings but is valid enough to continue">>)
                            ELSE r.lines
                     /\ tf' = [tf EXCEPT !.is_valid = TRUE,
                                         !.has_warnings = r.has_warnings,
                                         !.violations = env.violations]
                     /\ pc' = "test_config"
                     /\ UNCHANGED <<fstate, raised>>
    /\ UNCHANGED <<file, ex, outcomes, exit_code>>

\* test_file, lines 545-549: metadata.get('test', {}), not test_config
GetTestConfig ==
    /\ pc = "test_config"
    /\ IF tf.metadata.t # "dict"
         THEN /\ Raise("AttributeError")
              /\ UNCHANGED <<tf, diags, fstate>>
       ELSE
         LET test_config == Get(tf.metadata, K("test"), JDict(<<>>, <<>>))
         IN  IF ~Truthy(test_config)
               THEN /\ diags' = log(diags, "info",
                          <<"No test configuration found in front matter">>)
                    /\ fstate' = "NoTestConfig"
                    /\ Return(0, 0, 0)
                    /\ UNCHANGED raised
               ELSE /\ tf' = [tf EXCEPT !.test_config = test_config]
                    /\ pc' = "testable"
                    /\ UNCHANGED <<diags, fstate, raised>>
    /\ UNCHANGED <<file, ex, outcomes, exit_code, schema_cache>>

\* test_file, lines 551-563: test_config.get('testable', []), not testable,
\* len(testable), the list of the entries, the counters
GetTestable ==
    /\ pc = "testable"
    /\ IF tf.test_config.t # "dict"
         THEN /\ Raise("AttributeError")
              /\ UNCHANGED <<tf, diags, fstate>>
       ELSE
         LET testable == Get(tf.test_config, K("testable"), JList(<<>>))
         IN  IF ~Truthy(testable)
               THEN /\ diags' = log(diags, "info",
                          <<"No testable examples marked in front matter">>)
                    /\ fstate' = "NoTestableEntries"
                    /\ Return(0, 0, 0)
                    /\ UNCHANGED raised
             ELSE IF testable.t \notin {"list", "dict", "str"}
               THEN /\ Raise("TypeError")          \* len(testable)
                    /\ UNCHANGED <<tf, diags, fstate>>
             ELSE /\ diags' = LogEach(log(diags, "info",
                                   <<"Testable examples found: ">>
                                     \o IntToStr(PyLen(testable))),
                               "info", "  - ",
                               [n \in DOMAIN IterItems(testable) |->
                                  FormatScalar(IterItems(testable)[n])])
                  /\ tf' = [tf EXCEPT !.testable = IterItems(testable),
                                      !.total_tests = PyLen(testable),
                                      !.passed_tests = 0,
                                      !.failed_tests = 0]
                  /\ fstate' = "Testing"
                  /\ pc' = "loop"
                  /\ UNCHANGED raised
    /\ UNCHANGED <<file, ex, outcomes, exit_code, schema_cache>>

\* what the file holds for the example name
SectionsOf(example_name) ==
    IF example_name.chars \in DOMAIN file.sections
      THEN file.sections[example_name.chars]
      ELSE <<"none", [kind |-> "none", value |-> None]>>

\* test_file, lines 565-575 and 582: the next entry of the loop, or the
\* return after the last
NextEntry ==
    /\ pc = "loop"
    /\ IF Len(outcomes) = Len(tf.testable)
         THEN /\ Return(tf.total_tests, tf.passed_tests, tf.failed_tests)
              /\ fstate' = "Done"
              /\ UNCHANGED <<ex, diags, outcomes, raised>>
       ELSE
         LET testable_entry == tf.testable[Len(outcomes) + 1]
         IN  IF ParseEntryRaises(testable_entry)
               THEN /\ Raise("AttributeError")
                    /\ UNCHANGED <<tf, ex, diags, outcomes, fstate>>
             ELSE
               LET parsed == parse_testable_entry(testable_entry)
               IN  IF parsed.name = None
                     THEN /\ diags' = log(diags, "error",
                                <<"Invalid testable entry format: ">>
                                  \o FormatScalar(testable_entry))
                          /\ tf' = [tf EXCEPT !.failed_tests = @ + 1]
                          /\ outcomes' = Append(outcomes,
                                [entry |-> testable_entry,
                                 result |-> "failed", called |-> FALSE,
                                 executions |-> 0])
                          /\ UNCHANGED <<pc, ex, fstate, raised>>
                   ELSE /\ ex' = [NoEx EXCEPT
                                !.entry = testable_entry,
                                !.example_name = parsed.name,
                                !.expected_codes =
                                    IF parsed.codes = None
                                      THEN JList(<<JInt(200)>>)
                                      ELSE parsed.codes]
                        /\ pc' = "test_example"
                        /\ UNCHANGED <<tf, diags, outcomes, fstate, raised>>
    /\ UNCHANGED <<file, exit_code, schema_cache>>

\* return True / return False of test_example, and the counting of
\* test_file, lines 577-580
ReturnFromExample(locals, passed, lines) ==
    /\ ex' = [locals EXCEPT !.result = IF passed THEN "True" ELSE "False"]
    /\ diags' = lines
    /\ tf' = [tf EXCEPT !.passed_tests = IF passed THEN @ + 1 ELSE @,
                        !.failed_tests = IF passed THEN @ ELSE @ + 1]
    /\ outcomes' = Append(outcomes,
          [entry |-> locals.entry,
           result |-> IF passed THEN "passed" ELSE "failed", called |-> TRUE,
           executions |-> locals.executions])
    /\ pc' = "loop"

Quoted(prefix, example_name, suffix) ==
    <<prefix>> \o example_name.chars \o <<suffix>>

\* the diagnostics of the six ways test_example returns False.  The text
\* three of them start with, "Example '<name>' failed: ", is a chunk of its
\* own, so that two of these messages are the same sequence exactly when
\* they are the same string
RequestMissingMsg(example_name) ==
    Quoted("Could not find example '", example_name,
           "' or it is not formatted correctly")

ExecutionFailedMsg(example_name, body) ==
    Quoted("Example '", example_name, "' failed: ") \o body.text

UnexpectedStatusMsg(example_name, expected_codes, status_code) ==
    Quoted("Example '", example_name, "' failed; expected HTTP ")
      \o JoinCodes(expected_codes.items) \o <<", got ">>
      \o FormatScalar(status_code)

NotJsonMsg(example_name) ==
    Quoted("Example '", example_name, "' failed: ")
      \o <<"Response is not valid JSON">>

ResponseMissingMsg(example_name) ==
    Quoted("Could not find documented response for '", example_name,
           "' or it is not formatted correctly")

MismatchMsg(example_name) ==
    Quoted("Example '", example_name, "' failed: ")
      \o <<"Response does not match documentation">>

\* the level test_example logs a missing section with
MissingSectionLevel == "warning"

\* test_example, lines 416-428: extract_curl_command, not curl_cmd
ExtractRequest ==
    /\ pc = "test_example"
    /\ LET lines == log(<<>>, "info",
                        <<"\nTesting example: ">> \o ex.example_name.chars)
           server_url == Get(tf.test_config, K("server_url"), JStr(<<>>))
           section == SectionsOf(ex.example_name)[1]
           locals == [ex EXCEPT !.steps = Append(@, "extract_request")]
       IN
       IF ExtractCurlRaises(section, server_url) # ""
         THEN /\ Raise(ExtractCurlRaises(section, server_url))
              /\ ex' = [locals EXCEPT !.result = "raised"]
              /\ diags' = lines
              /\ UNCHANGED <<tf, outcomes>>
       ELSE
         LET curl_cmd == extract_curl_command(section, server_url)
         IN  IF ~Truthy(curl_cmd)
               THEN /\ ReturnFromExample(
                          [locals EXCEPT !.curl_cmd = curl_cmd], FALSE,
                          log(log(log(lines, MissingSectionLevel,
                                RequestMissingMsg(ex.example_name)),
                              "info",
                              Quoted("Expected format: '### ", ex.example_name,
                                     " request' section with bash code block")),
                            "info", <<"-  Help: ", "example_format">>))
                    /\ UNCHANGED raised
             ELSE /\ ex' = [locals EXCEPT !.curl_cmd = curl_cmd]
                  /\ diags' = log(lines, "info",
                        <<"  Command: ">> \o curl_cmd.chars \o <<"...">>)
                  /\ pc' = "execute"
                  /\ UNCHANGED <<tf, outcomes, raised>>
    /\ UNCHANGED <<file, fstate, exit_code, schema_cache>>

\* test_example, lines 430-438: execute_curl, status_code is None
ExecuteCurl ==
    /\ pc = "execute"
    /\ \E r \in ExecResults :
         LET locals == [ex EXCEPT !.steps = Append(@, "execute"),
                                  !.executions = @ + 1,
                                  !.status_code = r.status_code,
                                  !.body = r.body]
         IN  IF r.status_code = None
               THEN ReturnFromExample(locals, FALSE,
                      log(diags, "error",
                          ExecutionFailedMsg(ex.example_name, r.body)))
             ELSE /\ ex' = locals
                  /\ diags' = log(diags, "info",
                        <<"  Status: ">> \o FormatScalar(r.status_code))
                  /\ pc' = "check_status"
                  /\ UNCHANGED <<tf, outcomes>>
    /\ UNCHANGED <<file, fstate, raised, exit_code, schema_cache>>

\* test_example, lines 440-447: status_code not in expected_codes
CheckStatus ==
    /\ pc = "check_status"
    /\ LET locals == [ex EXCEPT !.steps = Append(@, "check_status")]
       IN  IF ~InList(ex.status_code, ex.expected_codes)
             THEN ReturnFromExample(locals, FALSE,
                    log(diags, "error",
                        UnexpectedStatusMsg(ex.example_name, ex.expected_codes,
                                            ex.status_code)))
           ELSE /\ ex' = locals
                /\ diags' = log(diags, "success",
                      <<"  HTTP ">> \o FormatScalar(ex.status_code)
                        \o <<" (success)">>)
                /\ pc' = "parse_body"
                /\ UNCHANGED <<tf, outcomes>>
    /\ UNCHANGED <<file, fstate, raised, exit_code, schema_cache>>

\* test_example, lines 449-457: json.loads(body)
ParseBody ==
    /\ pc = "parse_body"
    /\ LET locals == [ex EXCEPT !.steps = Append(@, "parse_body")]
       IN  IF ~ex.body.decodes                  \* except json.JSONDecodeError
             THEN ReturnFromExample(locals, FALSE,
                    log(log(diags, "error", NotJsonMsg(ex.example_name)),
                        "info", <<"  Response: ">> \o ex.body.text))
           ELSE /\ ex' = [locals EXCEPT !.decoded = TRUE,
                                        !.response_json = ex.body.value]
                /\ diags' = log(diags, "success",
                                <<"  Valid JSON response received">>)
                /\ pc' = "extract_expected"
                /\ UNCHANGED <<tf, outcomes>>
    /\ UNCHANGED <<file, fstate, raised, exit_code, schema_cache>>

\* test_example, lines 459-466: extract_expected_response,
\* expected_json is None
ExtractExpected ==
    /\ pc = "extract_expected"
    /\ LET expected_json ==
              extract_expected_response(SectionsOf(ex.example_name)[2])
           locals == [ex EXCEPT !.steps = Append(@, "extract_expected"),
                                !.expected_json = expected_json]
       IN  IF expected_json = None
             THEN ReturnFromExample(locals, FALSE,
                    log(log(log(diags, MissingSectionLevel,
                          ResponseMissingMsg(ex.example_name)),
                        "info",
                        Quoted("Expected format: '### ", ex.example_name,
                               " response' section with json code block")),
                      "info", <<"-  Help: ", "example_format">>))
           ELSE /\ ex' = locals
                /\ pc' = "compare"
                /\ UNCHANGED <<tf, diags, outcomes>>
    /\ UNCHANGED <<file, fstate, raised, exit_code, schema_cache>>

\* a slice that is one too long
ShownOneMore(differences) ==
    SubSeq(differences, 1,
           IF Len(differences) < MAX_DIFFERENCES_SHOWN + 1
             THEN Len(differences) ELSE MAX_DIFFERENCES_SHOWN + 1)

\* differences[:MAX_DIFFERENCES_SHOWN]
Shown(differences) ==
    SubSeq(differences, 1,
           IF Len(differences) < MAX_DIFFERENCES_SHOWN
             THEN Len(differences) ELSE MAX_DIFFERENCES_SHOWN)

\* test_example, lines 474-483: the mismatch, the number of differences,
\* the differences shown and the line for the ones left out
ReportDifferences(lines, example_name, differences) ==
    LET listed == LogEach(log(log(lines, "error", MismatchMsg(example_name)),
                              "info", <<"  Differences found: ">>
                                \o IntToStr(Len(differences))),
                          "info", "    * ", Shown(differences))
    IN  IF Len(differences) > MAX_DIFFERENCES_SHOWN
          THEN log(listed, "info",
                   <<"  ... and ">>
                     \o IntToStr(Len(differences) - MAX_DIFFERENCES_SHOWN)
                     \o <<" more differences">>)
          ELSE listed

\* test_example, lines 471-472: the lines of a response that matches
ReportMatch(lines, example_name) ==
    log(log(lines, "success", <<"  Response matches documentation exactly">>),
        "success",
        \* the check mark before Example is left out
        Quoted("  Example '", example_name, "' PASSED"))

\* test_example, lines 468-483: compare_json_objects, are_equal
CompareResponse ==
    /\ pc = "compare"
    /\ LET r == compare_json_objects(ex.response_json, ex.expected_json, <<>>)
           locals == [ex EXCEPT !.steps = Append(@, "compare"),
                                !.are_equal = r.are_equal]
       IN  IF r.are_equal
             THEN ReturnFromExample(locals, TRUE,
                                    ReportMatch(diags, ex.example_name))
           ELSE ReturnFromExample(locals, FALSE,
                  ReportDifferences(diags, ex.example_name, r.differences))
    /\ UNCHANGED <<file, fstate, raised, exit_code, schema_cache>>

\* the exit status for a returned (total, passed, failed)
ExitStatus(total, passed, failed) == IF failed > 0 THEN 1 ELSE 0

\* main, lines 625-649: the summary and sys.exit
Summarize ==
    /\ pc = "returned"
    /\ LET total == tf.ret[1]
           passed == tf.ret[2]
           failed == tf.ret[3]
           l1 == log(log(diags, "info", <<"TEST SUMMARY: ", "file_path">>),
                     "info", <<"  Total tests: ">> \o IntToStr(total))
           l2 == IF passed > 0
                   THEN log(l1, "success", <<"  Passed: ">> \o IntToStr(passed))
                   ELSE l1
           l3 == IF failed > 0
                   THEN log(l2, "error", <<"  Failed: ">> \o IntToStr(failed))
                   ELSE l2
       IN  /\ diags' = IF failed > 0 THEN l3
                       ELSE IF total = 0
                         THEN log(l3, "warning", <<"No tests were run">>)
                       ELSE log(l3, "success", <<"All tests passed!">>)
           /\ exit_code' = ExitStatus(total, passed, failed)
    /\ pc' = "exited"
    /\ UNCHANGED <<file, tf, ex, fstate, outcomes, raised, schema_cache>>

\* main has no handler: the exception ends the interpreter with status 1
Uncaught ==
    /\ pc = "raised"
    /\ exit_code' = 1
    /\ pc' = "exited"
    /\ UNCHANGED <<file, tf, ex, diags, fstate, outcomes, raised, schema_cache>>

Idle == [are_equal |-> FALSE, differences |-> <<>>]

Init ==
    /\ InitRun
    /\ cmp_actual = None
    /\ cmp_expected = None
    /\ cmp_path = <<>>
    /\ cmp_done = TRUE
    /\ cmp_result = Idle
    /\ NoCall

Next ==
    \/ (ReadFile /\ UNCHANGED <<cmpVars, callVars>>)
    \/ (ParseFrontMatter /\ UNCHANGED <<cmpVars, callVars>>)
    \/ (ValidateSchema /\ UNCHANGED <<cmpVars, callVars>>)
    \/ (GetTestConfig /\ UNCHANGED <<cmpVars, callVars>>)
    \/ (GetTestable /\ UNCHANGED <<cmpVars, callVars>>)
    \/ (NextEntry /\ UNCHANGED <<cmpVars, callVars>>)
    \/ (ExtractRequest /\ UNCHANGED <<cmpVars, callVars>>)
    \/ (ExecuteCurl /\ UNCHANGED <<cmpVars, callVars>>)
    \/ (CheckStatus /\ UNCHANGED <<cmpVars, callVars>>)
    \/ (ParseBody /\ UNCHANGED <<cmpVars, callVars>>)
    \/ (ExtractExpected /\ UNCHANGED <<cmpVars, callVars>>)
    \/ (CompareResponse /\ UNCHANGED <<cmpVars, callVars>>)
    \/ (Summarize /\ UNCHANGED <<cmpVars, callVars>>)
    \/ (Uncaught /\ UNCHANGED <<cmpVars, callVars>>)

Spec == Init /\ [][Next]_vars

-----------------------------------------------------------------------------
(* Calls of one function by itself *)

\* main and test_file are not running
NoRun ==
    /\ file = <<>>
    /\ pc = "idle"
    /\ tf = <<>>
    /\ ex = <<>>
    /\ diags = <<>>
    /\ fstate = "Unread"
    /\ outcomes = <<>>
    /\ raised = ""
    /\ exit_code = -1
    /\ schema_cache = <<>>

\* compare_json_objects is not called by itself
NoCompare ==
    /\ cmp_actual = None
    /\ cmp_expected = None
    /\ cmp_path = <<>>
    /\ cmp_done = TRUE
    /\ cmp_result = Idle

\* the call of function fn with one of the arguments
InitCall(fn, arguments) ==
    /\ call_fn = fn
    /\ call_args \in arguments
    /\ call_done = FALSE
    /\ call_result = <<>>
    /\ schema_disk = <<>>
    /\ reads = <<>>
    /\ NoRun
    /\ NoCompare

\* the call returns value
ReturnCall(fn, value) ==
    /\ call_fn = fn
    /\ ~call_done
    /\ call_result' = value
    /\ call_done' = TRUE
    /\ UNCHANGED <<call_fn, call_args, schema_disk, reads, cmpVars, runVars>>

RECURSIVE Join(_, _)
\* sep.join(parts)
Join(parts, sep) ==
    IF parts = <<>> THEN <<>>
    ELSE IF Len(parts) = 1 THEN parts[1]
    ELSE parts[1] \o sep \o Join(Tail(parts), sep)

-----------------------------------------------------------------------------
(* parse_testable_entry on written entries *)

\* example names: one word, two words
EntryNames == {<<"G">>, <<"G", " ", "e">>}

\* the whitespace written around a name or a code
Pads == {<<>>, <<" ">>}

\* the status codes written
Codes == {5, 200, 201}

\* code tokens that are no numbers
NonNumericTokens == {<<"x">>, <<"2", "x">>, <<"1", ".", "5">>}

\* the token of code c, written between pad
Written(c, pad) == pad \o IntToStr(c) \o pad

\* the tokens of the codes cs with one more token after the k-th
TokensWith(cs, k, token) ==
    LET written == [i \in DOMAIN cs |-> Written(cs[i], <<>>)]
    IN  SubSeq(written, 1, k) \o <<token>> \o SubSeq(written, k + 1, Len(cs))

\* up to n codes and a place among them
Places(n) ==
    {ck \in SeqsUpTo(Codes, n) \X (0..n) : ck[2] <= Len(ck[1])}

\* the entries: name / c1,...,cn ("codes"), the name alone ("alone"), no
\* or only blank characters ("blank"), codes after no name ("noname"), a
\* token that is no number among the codes ("nonnumeric"), an empty token
\* among the codes ("emptytoken").  tokens are the written tokens of the
\* code list, codes the numbers among them in the written order
EntryForms ==
    {[kind |-> "codes", name |-> n, codes |-> cs,
      entry |-> l \o n \o r \o <<"/">>
                  \o Join([i \in DOMAIN cs |-> Written(cs[i], p)], <<",">>)] :
        n \in EntryNames, l \in Pads, r \in Pads, p \in Pads,
        cs \in SeqsUpTo(Codes, MaxCodes) \ {<<>>}}
    \cup {[kind |-> "alone", name |-> n, codes |-> <<>>,
           entry |-> l \o n \o r] :
            n \in EntryNames, l \in Pads, r \in Pads}
    \cup {[kind |-> "blank", name |-> <<>>, codes |-> <<>>, entry |-> e] :
            e \in {<<>>, <<" ">>, <<" ", "\t">>}}
    \cup {[kind |-> "noname", name |-> <<>>, codes |-> cs,
           entry |-> l \o <<"/">>
                       \o Join([i \in DOMAIN cs |-> Written(cs[i], p)],
                               <<",">>)] :
            l \in Pads, p \in Pads, cs \in SeqsUpTo(Codes, MaxCodes) \ {<<>>}}
    \cup {[kind |-> "nonnumeric", name |-> n, codes |-> ck[1],
           entry |-> n \o <<" ", "/", " ">>
                       \o Join(TokensWith(ck[1], ck[2], bad), <<",">>)] :
            n \in EntryNames, bad \in NonNumericTokens,
            ck \in Places(MaxCodes - 1)}
    \cup {[kind |-> "emptytoken", name |-> n, codes |-> ck[1],
           entry |-> n \o <<" ", "/", " ">>
                       \o Join(TokensWith(ck[1], ck[2], <<>>), <<",">>)] :
            n \in EntryNames,
            ck \in {p \in Places(MaxCodes) : p[1] # <<>>}}

InitParseEntry == InitCall("parse_testable_entry", EntryForms)

\* one call of parse_testable_entry(entry)
ParseEntry ==
    ReturnCall("parse_testable_entry",
               parse_testable_entry(JStr(call_args.entry)))

NextParseEntry == ParseEntry

SpecParseEntry == InitParseEntry /\ [][NextParseEntry]_vars

-----------------------------------------------------------------------------
(* doc_test_utils.parse_front_matter_with_errors                           *)
(*                                                                         *)
(* The content is a string of single characters.  The messages are cut so  *)
(* that the words "front matter" are chunks of their own.                  *)

Dashes == <<"-", "-", "-">>

RECURSIVE SkipBlanks(_, _)
\* [ \t]* from position i of s: the position after the spaces and tabs
SkipBlanks(s, i) ==
    IF i <= Len(s) /\ s[i] \in {" ", "\t"} THEN SkipBlanks(s, i + 1) ELSE i

\* ^---[ \t]*\n at the start of content: the position after the newline, 0
\* when the content does not start so
OpeningEnd(content) ==
    IF ~StartsWith(content, Dashes) THEN 0
    ELSE LET i == SkipBlanks(content, 4)
         IN  IF i <= Len(content) /\ content[i] = "\n" THEN i + 1 ELSE 0

\* (.*?)\n--- from position p: the position of the first newline at or
\* after p that three dashes follow, 0 when there is none
ClosingAt(content, p) ==
    LET qs == {q \in p..(Len(content) - 3) :
                 SubSeq(content, q, q + 3) = <<"\n">> \o Dashes}
    IN  IF qs = {} THEN 0 ELSE CHOOSE q \in qs : \A r \in qs : q <= r

\* re.match(r'^---[ \t]*\n(.*?)\n---[ \t]*\n?', content, re.DOTALL): whether
\* it matches, and group(1)
fm_match(content) ==
    LET p == OpeningEnd(content)
        q == IF p = 0 THEN 0 ELSE ClosingAt(content, p)
    IN  IF q = 0 THEN [matched |-> FALSE, group1 |-> <<>>]
        ELSE [matched |-> TRUE, group1 |-> SubSeq(content, p, q - 1)]

LeadingWhitespaceMsg ==
    <<"Front matter",
      " delimiter has leading whitespace. The '---' must be at the start of the line with no spaces or tabs before it.">>

NoClosingMsg ==
    <<"Front matter",
      " opening delimiter found but no closing delimiter could be found. Ensure ",
      "front matter", " ends with '---' on its own line.">>

NoFrontMatterMsg ==
    <<"No ", "front matter", " found. Add YAML ", "front matter",
      " between --- delimiters at the start of the file.\nExample:\n---\nlayout: default\ndescription: Your description here\n---">>

\* the message for a yaml.YAMLError e, with the line of its problem_mark
\* (None when it has none)
YamlErrorMsg(e, error_line) ==
    <<"Invalid YAML syntax in ", "front matter", ": ", e>>
      \o (IF Truthy(error_line)
            THEN <<"\nError on or near line ">> \o IntToStr(error_line.s)
                   \o <<".">>
            ELSE <<>>)
      \o <<"\n\nCommon YAML issues:\n- Inconsistent indentation (use spaces, not tabs)\n- Unclosed quotes or brackets\n- Missing colons after keys">>

\* the result (metadata, error_message, error_line); fm is what the
\* function matched, loaded what yaml.safe_load did
FmResult(metadata, error_message, error_line, fm, loaded) ==
    [metadata |-> metadata, error_message |-> error_message,
     error_line |-> error_line, fm |-> fm, loaded |-> loaded]

NotLoaded == [raises |-> FALSE, value |-> None, mark |-> None]

\* parse_front_matter_with_errors(content), given what
\* yaml.safe_load(fm_match.group(1)) does: it returns loaded.value, or raises
\* a YAMLError whose problem_mark (where it has one) is at line loaded.mark
parse_front_matter_with_errors(content, loaded) ==
    LET fm == fm_match(content)
    IN  IF ~fm.matched THEN
          IF LStrip(content) # content /\ StartsWith(LStrip(content), Dashes)
            THEN FmResult(None, JStr(LeadingWhitespaceMsg), JInt(1), fm,
                          NotLoaded)
          ELSE IF StartsWith(Strip(content), Dashes)
            THEN FmResult(None, JStr(NoClosingMsg), JInt(1), fm, NotLoaded)
          ELSE FmResult(None, JStr(NoFrontMatterMsg), JInt(1), fm, NotLoaded)
        ELSE IF ~loaded.raises
          THEN FmResult(loaded.value, None, None, fm, loaded)
        ELSE
          LET error_line == IF loaded.mark # None
                              THEN JInt(loaded.mark.s + 2) ELSE None
          IN  FmResult(None, JStr(YamlErrorMsg("<e>", error_line)),
                       error_line, fm, loaded)

\* the lines of the documents: the delimiter bare, with a space after it,
\* with other characters after it, with a space before it; YAML for a
\* mapping, for a list, with an open bracket; an empty line
DocLines ==
    {Dashes, Dashes \o <<" ">>, Dashes \o <<"x">>, <<" ">> \o Dashes,
     <<"a", ":", " ", "1">>, <<"-", " ", "1">>, <<"[">>, <<>>}

\* the documents: up to MaxLines lines with newlines between them
Documents ==
    {[lines |-> ls, content |-> Join(ls, <<"\n">>)] :
        ls \in SeqsUpTo(DocLines, MaxLines)}

YamlValues ==
    {JDict(<<K("a")>>, <<JInt(1)>>), JList(<<JInt(1)>>), JStr(<<"x">>)}

\* what yaml.safe_load(text) can do.  PyYAML is not part of the repository:
\* a text of blank lines loads as None, 'a: 1' as a mapping, '- 1' as a
\* list, '[' raises; of any other text nothing is assumed
YamlOutcomes(text) ==
    LET lines == Split(text, "\n")
        written == SelectSeq(lines, LAMBDA l : Strip(l) # <<>>)
        loads == {[raises |-> FALSE, value |-> v, mark |-> None] :
                     v \in YamlValues}
        fails == {[raises |-> TRUE, value |-> None, mark |-> m] :
                     m \in {None} \cup {JInt(n) : n \in 0..Len(lines)}}
    IN  IF written = <<>> THEN {[raises |-> FALSE, value |-> None,
                                 mark |-> None]}
        ELSE IF written = <<<<"a", ":", " ", "1">>>>
          THEN {[raises |-> FALSE, value |-> JDict(<<K("a")>>, <<JInt(1)>>),
                 mark |-> None]}
        ELSE IF written = <<<<"-", " ", "1">>>>
          THEN {[raises |-> FALSE, value |-> JList(<<JInt(1)>>),
                 mark |-> None]}
        ELSE IF written = <<<<"[">>>> THEN fails
        ELSE loads \cup fails

InitFrontMatter == InitCall("parse_front_matter_with_errors", Documents)

\* one call of parse_front_matter_with_errors(content)
ParseContent ==
    \E loaded \in YamlOutcomes(fm_match(call_args.content).group1) :
       ReturnCall("parse_front_matter_with_errors",
                  parse_front_matter_with_errors(call_args.content, loaded))

NextFrontMatter == ParseContent

SpecFrontMatter == InitFrontMatter /\ [][NextFrontMatter]_vars

-----------------------------------------------------------------------------
(* The section locator on written documents: _make_flexible_pattern,       *)
(* extract_curl_command and extract_expected_response read line by line    *)

\* c.lower(), for the letters the documents are written with
Lower(c) ==
    IF c = "G" THEN "g" ELSE IF c = "R" THEN "r" ELSE c

\* the words of re.escape(example_name) between single spaces
Words(example_name) == Split(example_name, " ")

\* the backtick character
Backtick == "BACKTICK"

\* the positions a match can reach from a position of P by whitespace
AfterWhitespace(line, P) ==
    {q \in 1..(Len(line) + 1) :
        \E p \in P : p < q /\ \A i \in p..(q - 1) : line[i] \in Whitespace}

\* the positions a match can reach from a position of P by an optional c
AfterOptional(line, P, c) ==
    P \cup {p + 1 : p \in {r \in P : r <= Len(line) /\ line[r] = c}}

\* the positions a match can reach from a position of P by the text lit,
\* under re.IGNORECASE
AfterLiteral(line, P, lit) ==
    {p + Len(lit) :
        p \in {r \in P : /\ r + Len(lit) - 1 <= Len(line)
                         /\ \A i \in 1..Len(lit) :
                               Lower(line[r + i - 1]) = Lower(lit[i])}}

\* the positions a match can reach by the word between optional backticks
AfterWord(line, P, word) ==
    AfterOptional(line,
                  AfterLiteral(line, AfterOptional(line, P, Backtick), word),
                  Backtick)

RECURSIVE AfterWords(_, _, _)
\* the positions a match can reach by the flexible pattern of the words:
\* each word between optional backticks, whitespace between the words
AfterWords(line, P, words) ==
    IF Len(words) = 1 THEN AfterWord(line, P, words[1])
    ELSE AfterWords(line,
                    AfterWhitespace(line, AfterWord(line, P, words[1])),
                    Tail(words))

\* re.search(heading_pattern, line, re.IGNORECASE): three '#' and an
\* optional fourth at the start of the line, whitespace, the flexible
\* pattern of the name, whitespace, the word
HeadingMatches(line, example_name, word) ==
    LET hashes == AfterOptional(line, AfterLiteral(line, {1}, <<"#", "#", "#">>), "#")
        named  == AfterWords(line, AfterWhitespace(line, hashes),
                             Words(example_name))
    IN  AfterLiteral(line, AfterWhitespace(line, named), word) # {}

RequestWord == <<"r", "e", "q", "u", "e", "s", "t">>

ResponseWord == <<"r", "e", "s", "p", "o", "n", "s", "e">>

FenceBash == <<Backtick, Backtick, Backtick, "b", "a", "s", "h">>

FenceSh == <<Backtick, Backtick, Backtick, "s", "h">>

FenceJson == <<Backtick, Backtick, Backtick, "j", "s", "o", "n">>

Fence == <<Backtick, Backtick, Backtick>>

\* the word of the heading and the opening fences a locator looks for
CurlLocator == [word |-> RequestWord, fences |-> {FenceBash, FenceSh}]

ResponseLocator == [word |-> ResponseWord, fences |-> {FenceJson}]

RECURSIVE ScanLines(_, _, _, _, _)
\* the loop over the lines from line i on, with the state st of in_example,
\* in_code_block and the lines collected; the value is the lines collected
\* when the loop ends
ScanLines(lines, i, st, example_name, locator) ==
    IF i > Len(lines) THEN st.elements
    ELSE LET line == lines[i]
         IN  IF HeadingMatches(line, example_name, locator.word)
               THEN ScanLines(lines, i + 1, [st EXCEPT !.in_example = TRUE],
                              example_name, locator)
             ELSE IF ~st.in_example
               THEN ScanLines(lines, i + 1, st, example_name, locator)
             ELSE IF \E f \in locator.fences : StartsWith(Strip(line), f)
               THEN ScanLines(lines, i + 1, [st EXCEPT !.in_code_block = TRUE],
                              example_name, locator)
             ELSE IF st.in_code_block /\ Strip(line) = Fence
               THEN st.elements
             ELSE LET collected ==
                        IF st.in_code_block
                          THEN [st EXCEPT !.elements = Append(@, line)]
                          ELSE st
                  IN  IF StartsWith(line, <<"#">>)
                        THEN collected.elements
                        ELSE ScanLines(lines, i + 1, collected,
                                       example_name, locator)

\* the lines the loop of a locator collects from content
Elements(content, example_name, locator) ==
    ScanLines(Split(content, "\n"), 1,
              [in_example |-> FALSE, in_code_block |-> FALSE,
               elements |-> <<>>],
              example_name, locator)

\* whether a line of content matches the heading pattern of the locator
HeadingFound(content, example_name, locator) ==
    \E i \in DOMAIN Split(content, "\n") :
       HeadingMatches(Split(content, "\n")[i], example_name, locator.word)

RECURSIVE Replace(_, _, _, _)
\* s.replace(old, new, count); count -1 replaces every occurrence
Replace(s, old, new, count) ==
    IF count = 0 \/ Len(s) < Len(old) THEN s
    ELSE IF StartsWith(s, old)
      THEN new \o Replace(SubSeq(s, Len(old) + 1, Len(s)), old, new, count - 1)
    ELSE <<Head(s)>> \o Replace(Tail(s), old, new, count)

Curl == <<"c", "u", "r", "l">>

Placeholder == <<"{", "s", "e", "r", "v", "e", "r", "_", "u", "r", "l", "}">>

\* the command made of the collected lines: joined and stripped, -i put
\* after the first curl, the placeholder replaced by a server_url that is
\* not empty
CurlCommand(elements, server_url) ==
    LET curl_cmd_string == Strip(Join(elements, <<"\n">>))
        with_flag ==
            IF /\ ~Contains(curl_cmd_string, <<"-", "i">>)
               /\ ~Contains(curl_cmd_string, <<"-", "-", "i", "n", "c", "l", "u", "d", "e">>)
              THEN Replace(curl_cmd_string, Curl, Curl \o <<" ", "-", "i">>, 1)
              ELSE curl_cmd_string
    IN  IF server_url # <<>>
          THEN Replace(with_flag, Placeholder, server_url, -1)
          ELSE with_flag

\* extract_curl_command(content, server_url, example_name), read line by
\* line
ExtractCurlCommand(content, server_url, example_name) ==
    LET curl_cmd_elements == Elements(content, example_name, CurlLocator)
    IN  IF curl_cmd_elements # <<>>
          THEN JStr(CurlCommand(curl_cmd_elements, server_url))
          ELSE None

\* json.loads(text) for the texts the documents hold: null and 1 between
\* whitespace are JSON, no other text is
JsonLoads(text) ==
    IF Strip(text) = <<"n", "u", "l", "l">> THEN [raises |-> FALSE, value |-> None]
    ELSE IF Strip(text) = <<"1">> THEN [raises |-> FALSE, value |-> JInt(1)]
    ELSE [raises |-> TRUE, value |-> None]

\* extract_expected_response(content, example_name), read line by line
ExtractExpectedResponse(content, example_name) ==
    LET json_lines == Elements(content, example_name, ResponseLocator)
    IN  IF json_lines # <<>> /\ ~JsonLoads(Join(json_lines, <<"\n">>)).raises
          THEN JsonLoads(Join(json_lines, <<"\n">>)).value
          ELSE None

(* The documents a locator is called on *)

\* the ways a heading is written: the number of '#', the backticks about
\* the words ("plain": none, "wrapped": about each word, "first": about the
\* first word, "open": one before the first word, "close": one after the
\* last word), the case, the word after the name, what follows the word,
\* what is before the '#' and the whitespace between the parts
HeadingForms ==
    [hashes : 2..5,
     ticks  : {"plain", "wrapped", "first", "open", "close"},
     upper  : BOOLEAN,
     word   : {RequestWord, ResponseWord},
     suffix : {<<>>, <<"s">>},
     indent : {<<>>, <<" ">>},
     gap    : {<<" ">>, <<" ", "\t">>}]

\* the heading '### name word'
PlainHeading(word) ==
    [hashes |-> 3, ticks |-> "plain", upper |-> FALSE, word |-> word,
     suffix |-> <<>>, indent |-> <<>>, gap |-> <<" ">>]

\* the i-th of the words as the heading h writes it
WrittenWord(h, words, i) ==
    LET cased == IF h.upper THEN [k \in DOMAIN words[i] |-> Lower(words[i][k])]
                 ELSE words[i]
        open  == \/ h.ticks = "wrapped"
                 \/ h.ticks \in {"first", "open"} /\ i = 1
        close == \/ h.ticks = "wrapped"
                 \/ h.ticks = "first" /\ i = 1
                 \/ h.ticks = "close" /\ i = Len(words)
    IN  (IF open THEN <<Backtick>> ELSE <<>>) \o cased
           \o (IF close THEN <<Backtick>> ELSE <<>>)

\* the line of the heading h for the example name
HeadingLine(h, example_name) ==
    LET words == Split(example_name, " ")
    IN  h.indent \o [i \in 1..h.hashes |-> "#"] \o h.gap
           \o Join([i \in DOMAIN words |-> WrittenWord(h, words, i)], h.gap)
           \o h.gap
           \o (IF h.upper THEN <<"R">> \o Tail(h.word) ELSE h.word)
           \o h.suffix

OtherHeading == <<"#", "#", " ", "O", "t", "h", "e", "r">>

TextLine == <<"t", "e", "x", "t">>

CommentLine == <<"#", " ", "c">>

\* the lines written in a fenced block: commands with the placeholder, with
\* -i, with --include, with -i inside a word, a continuation line, a
\* comment, JSON texts and the empty line
BlockLines ==
    {<<"c", "u", "r", "l", " ", "{", "s", "e", "r", "v", "e", "r", "_", "u", "r", "l", "}", "/", "u">>,
     <<"c", "u", "r", "l", " ", "-", "i", " ", "x">>,
     <<"c", "u", "r", "l", " ", "-", "-", "i", "n", "c", "l", "u", "d", "e", " ", "x">>,
     <<"c", "u", "r", "l", " ", "x", "/", "b", "y", "-", "i", "d">>,
     <<" ", " ", "-", "H", " ", "a">>,
     CommentLine,
     <<"n", "u", "l", "l">>,
     <<"1">>,
     <<>>}

\* the lines between the heading and the fence
Mids == {<<>>, <<<<>>>>, <<TextLine>>, <<OtherHeading>>}

\* the lines before the heading
Pres == {<<>>, <<FenceBash, <<"c", "u", "r", "l", " ", "{", "s", "e", "r", "v", "e", "r", "_", "u", "r", "l", "}", "/", "u">>, Fence>>}

LocatorNames == {<<"G">>, <<"G", " ", "e">>}

\* the server_url of test_config: none (''), one, one with -i in it
LocatorUrls == {<<>>, <<"h", "t", "t", "p", ":", "/", "/", "h">>, <<"h", "-", "i">>}

\* the lines of a document: what is before the heading, the heading, what
\* is between it and the fence, the fence with its tag, the block and the
\* closing fence
DocumentLines(d) ==
    d.pre \o <<HeadingLine(d.h, d.name)>> \o d.mid \o <<d.tag>> \o d.block
       \o (IF d.closed THEN <<Fence>> ELSE <<>>)

\* the documents with the headings in all their ways over one block of the
\* tag of the word, and the documents with a plain heading over the blocks
LocatorDocuments ==
    {[name |-> n, h |-> h, pre |-> <<>>, mid |-> <<>>,
      tag |-> IF h.word = RequestWord THEN FenceBash ELSE FenceJson,
      block |-> IF h.word = RequestWord THEN <<<<"c", "u", "r", "l", " ", "{", "s", "e", "r", "v", "e", "r", "_", "u", "r", "l", "}", "/", "u">>>> ELSE <<<<"1">>>>,
      closed |-> TRUE] :
        n \in LocatorNames, h \in HeadingForms}
    \cup {[name |-> <<"G">>, h |-> PlainHeading(w), pre |-> pre, mid |-> mid,
           tag |-> tag, block |-> block, closed |-> closed] :
            w \in {RequestWord, ResponseWord}, pre \in Pres, mid \in Mids,
            tag \in {FenceBash, FenceSh, FenceJson},
            block \in SeqsUpTo(BlockLines, MaxBlock), closed \in BOOLEAN}

\* the calls: a document, its content and the server_url
LocatorCalls ==
    {[doc |-> d, content |-> Join(DocumentLines(d), <<"\n">>),
      server_url |-> u] :
        d \in LocatorDocuments, u \in LocatorUrls}

InitLocator ==
    \/ InitCall("extract_curl_command", LocatorCalls)
    \/ InitCall("extract_expected_response",
                {c \in LocatorCalls : c.server_url = <<>>})

\* one call of extract_curl_command(content, server_url, example_name);
\* the result keeps what the loop found and collected
CallExtractCurl ==
    ReturnCall("extract_curl_command",
        [value |-> ExtractCurlCommand(call_args.content, call_args.server_url,
                                      call_args.doc.name),
         found |-> HeadingFound(call_args.content, call_args.doc.name,
                                CurlLocator),
         elements |-> Elements(call_args.content, call_args.doc.name,
                               CurlLocator)])

\* one call of extract_expected_response(content, example_name)
CallExtractExpected ==
    ReturnCall("extract_expected_response",
        [value |-> ExtractExpectedResponse(call_args.content,
                                           call_args.doc.name),
         found |-> HeadingFound(call_args.content, call_args.doc.name,
                                ResponseLocator),
         elements |-> Elements(call_args.content, call_args.doc.name,
                               ResponseLocator)])

NextLocator == CallExtractCurl \/ CallExtractExpected

SpecLocator == InitLocator /\ [][NextLocator]_vars

-----------------------------------------------------------------------------
(* schema_validator.py by itself: validate_front_matter_schema on one      *)
(* metadata, and load_schema and clear_schema_cache over files that change *)

SchemaPaths == {<<"a.json">>, <<"b.json">>}

\* a schema with no required list
OtherSchema == JDict(<<K("type")>>, <<JStr(<<"object">>)>>)

\* what a schema file can hold: nothing (no file), text that is no JSON, a
\* file open() cannot read, and the JSON documents of two schemas and null
DiskFiles ==
    {[kind |-> "missing", value |-> None],
     [kind |-> "invalid_json", value |-> None],
     [kind |-> "unreadable", value |-> None],
     [kind |-> "json", value |-> TheSchema],
     [kind |-> "json", value |-> OtherSchema],
     [kind |-> "json", value |-> None]}

\* the violations jsonschema reports, with those of Violations: a value out
\* of the enum of a required and of an optional field, a wrong type inside
\* an optional object, a const and a minLength of a required field that do
\* not hold, and a field missing inside an optional object
SchemaViolations ==
    Violations
    \cup {[validator |-> "enum", absolute_path |-> <<K("layout")>>,
           message |-> <<"'x' is not one of ['default']">>],
          [validator |-> "enum", absolute_path |-> <<K("tags")>>,
           message |-> <<"'x' is not one of ['a']">>],
          [validator |-> "type", absolute_path |-> <<K("test"), K("server_url")>>,
           message |-> <<"1 is not of type 'string'">>],
          [validator |-> "const", absolute_path |-> <<K("layout")>>,
           message |-> <<"'default' was expected">>],
          [validator |-> "minLength", absolute_path |-> <<K("title")>>,
           message |-> <<"'' is too short">>],
          [validator |-> "required", absolute_path |-> <<K("test")>>,
           message |-> <<"'", "testable", "'", " is a required property">>]}

\* the calls of validate_front_matter_schema: the cache before the call,
\* the path and the environment; the schema file in all its states with no
\* violations, and the violations over a schema that loads
ValidateCalls ==
    {[cache |-> c, path |-> <<"a.json">>,
      env |-> [jsonschema |-> j, disk |-> d, reread |-> r,
               violations |-> <<>>]] :
        c \in {<<>>, <<"a.json">> :> TheSchema, <<"a.json">> :> None},
        j \in BOOLEAN, d \in DiskFiles, r \in DiskFiles}
    \cup {[cache |-> <<>>, path |-> <<"a.json">>,
           env |-> [jsonschema |-> TRUE,
                    disk |-> [kind |-> "json", value |-> sch],
                    reread |-> [kind |-> "json", value |-> sch],
                    violations |-> vs]] :
            sch \in {TheSchema, OtherSchema},
            vs \in {v \in SeqsUpTo(SchemaViolations, MaxViolations) :
                       NoDup(v)}}

InitValidate == InitCall("validate_front_matter_schema", ValidateCalls)

\* one call of validate_front_matter_schema(metadata, schema_path); the
\* result keeps what load_schema returned in the call and how each
\* violation was categorized
CallValidate ==
    LET loaded == load_schema(call_args.cache, call_args.path,
                              call_args.env.disk)
    IN  ReturnCall("validate_front_matter_schema",
          [result |-> validate_front_matter_schema(<<>>, call_args.cache,
                         call_args.path, call_args.env),
           schema |-> loaded.schema,
           is_required |->
              [n \in DOMAIN call_args.env.violations |->
                 categorize_validation_error(call_args.env.violations[n],
                                             loaded.schema).is_required]])

NextValidate == CallValidate

SpecValidate == InitValidate /\ [][NextValidate]_vars

\* the run variables other than the schema cache
runButCache == <<file, pc, tf, ex, diags, fstate, outcomes, raised, exit_code>>

InitCache ==
    /\ call_fn = ""
    /\ call_args = <<>>
    /\ call_done = TRUE
    /\ call_result = <<>>
    /\ schema_disk \in [SchemaPaths -> DiskFiles]
    /\ reads = [p \in SchemaPaths |-> 0]
    /\ NoRun
    /\ NoCompare

\* load_schema(schema_path); the call keeps the cache and the reads before
\* it and what the file held
LoadSchema ==
    \E p \in SchemaPaths :
       LET r == load_schema(schema_cache, p, schema_disk[p])
       IN  /\ p \in DOMAIN schema_cache \/ reads[p] < MaxReads
           /\ schema_cache' = r.cache
           /\ reads' = IF p \in DOMAIN schema_cache THEN reads
                       ELSE [reads EXCEPT ![p] = @ + 1]
           /\ call_fn' = "load_schema"
           /\ call_args' = [path |-> p, cache |-> schema_cache,
                            reads |-> reads, file |-> schema_disk[p]]
           /\ call_result' = r.schema
           /\ UNCHANGED <<call_done, schema_disk, cmpVars, runButCache>>

\* clear_schema_cache()
ClearSchemaCache ==
    /\ schema_cache' = <<>>
    /\ reads' = [p \in SchemaPaths |-> 0]
    /\ call_fn' = "clear_schema_cache"
    /\ call_args' = <<>>
    /\ call_result' = None
    /\ UNCHANGED <<call_done, schema_disk, cmpVars, runButCache>>

\* the file of a path is written, removed or made unreadable between two
\* calls
ChangeSchemaFile ==
    \E p \in SchemaPaths, f \in DiskFiles :
       /\ schema_disk[p] # f
       /\ schema_disk' = [schema_disk EXCEPT ![p] = f]
       /\ UNCHANGED <<call_fn, call_args, call_done, call_result, reads,
                      cmpVars, runVars>>

NextCache == LoadSchema \/ ClearSchemaCache \/ ChangeSchemaFile

SpecCache == InitCache /\ [][NextCache]_vars

-----------------------------------------------------------------------------
(* execute_curl on what the command wrote *)

\* the first place where sub occurs in s, 0 when it does not
Find(s, sub) ==
    LET places == {i \in 1..(Len(s) - Len(sub) + 1) :
                      \A j \in 1..Len(sub) : s[i + j - 1] = sub[j]}
    IN  IF places = {} THEN 0
        ELSE CHOOSE i \in places : \A j \in places : i <= j

\* s.split(sep, 1)
SplitOnce(s, sep) ==
    IF Find(s, sep) = 0 THEN <<s>>
    ELSE <<SubSeq(s, 1, Find(s, sep) - 1),
           SubSeq(s, Find(s, sep) + Len(sep), Len(s))>>

\* the matches of the status pattern in line, as the place where the match
\* starts and the place of the last whitespace before the three digits: the
\* text HTTP/, one or more digits or dots, whitespace, three digits
StatusMatches(line) ==
    {m \in (1..Len(line)) \X (1..Len(line)) :
       /\ m[1] + 4 <= Len(line)
       /\ SubSeq(line, m[1], m[1] + 4) = <<"H", "T", "T", "P", "/">>
       /\ m[2] + 3 <= Len(line)
       /\ \E v \in (m[1] + 5)..(m[2] - 1) :
             /\ \A k \in (m[1] + 5)..v : line[k] \in Digits \cup {"."}
             /\ \A k \in (v + 1)..m[2] : line[k] \in Whitespace
       /\ \A k \in (m[2] + 1)..(m[2] + 3) : line[k] \in Digits}

\* the places where a match of the status pattern starts
StatusPlaces(line) == {m[1] : m \in StatusMatches(line)}

\* the three digits of the first match of the status pattern in line
StatusDigits(line) ==
    LET m == CHOOSE a \in StatusMatches(line) :
                \A b \in StatusMatches(line) : a[1] <= b[1]
    IN  SubSeq(line, m[2] + 1, m[2] + 3)

\* a status that reads the first two digits only
StatusCodeOfTwoDigits(line) ==
    JInt(DigitsValue(SubSeq(StatusDigits(line), 1, 2), 0))

\* int(status_match.group(1))
StatusCode(line) == JInt(DigitsValue(StatusDigits(line), 0))

\* execute_curl(curl_command) where subprocess.run ends as proc says: kind
\* "completed" with returncode, stdout and stderr, "timeout", or "raises"
\* with the text of the exception
execute_curl(proc) ==
    IF proc.kind = "timeout" THEN
      [status_code |-> None, headers |-> None,
       body |-> JStr(<<"Command timed out after ">>
                       \o IntToStr(CURL_TIMEOUT_SECONDS) \o <<" seconds">>)]
    ELSE IF proc.kind = "raises" THEN
      [status_code |-> None, headers |-> None, body |-> JStr(proc.message)]
    ELSE IF proc.returncode # 0 THEN
      [status_code |-> None, headers |-> None,
       body |-> JStr(IF proc.stderr # <<>> THEN proc.stderr
                     ELSE <<"Command failed">>)]
    ELSE
      LET output == proc.stdout
          parts == IF Len(SplitOnce(output, <<"\n", "\n">>)) < 2
                     THEN SplitOnce(output, <<"\r", "\n", "\r", "\n">>)
                     ELSE SplitOnce(output, <<"\n", "\n">>)
      IN  IF Len(parts) < 2 THEN
            [status_code |-> None, headers |-> None,
             body |-> JStr(<<"Could not parse response headers/body">>)]
          ELSE
            LET headers == parts[1]
                body == parts[2]
                status_line == Split(headers, "\n")[1]
            IN  IF StatusPlaces(status_line) = {} THEN
                  [status_code |-> None, headers |-> None,
                   body |-> JStr(<<"Could not extract status code">>)]
                ELSE
                  [status_code |-> StatusCode(status_line),
                   headers |-> JStr(headers), body |-> JStr(body)]

\* the first lines written: status lines of 200 and 404, and lines that are
\* no status line; code is the status the line states, 0 for none
FirstLines ==
    {[line |-> <<"H", "T", "T", "P", "/", "1", ".", "1", " ", "2", "0", "0", " ", "O", "K">>, code |-> 200],
     [line |-> <<"H", "T", "T", "P", "/", "2", " ", "4", "0", "4">>, code |-> 404],
     [line |-> <<"H", "T", "T", "P", "/", "1", ".", "1", " ", "2", "0">>, code |-> 0],
     [line |-> <<"<", "h", "t", "m", "l", ">">>, code |-> 0]}

\* the header lines after the first
HeaderLines == {<<>>, <<<<"a", ":", " ", "b">>>>}

\* the ends of line: LF and CRLF
Eols == {<<"\n">>, <<"\r", "\n">>}

\* the bodies: empty, one line, and two lines with an empty line of each
\* convention between them
ResponseBodies ==
    {<<>>, <<"1">>, <<"[", "1", ",", "\n", "\n", "2", "]">>, <<"[", "1", ",", "\r", "\n", "\r", "\n", "2", "]">>}

\* what the command wrote when it ran: a header block, an empty line and a
\* body ("response"), a header block alone ("headers"), or nothing ("empty")
Outputs ==
    {[form |-> "response", first |-> f, eol |-> e,
      head |-> Join(<<f.line>> \o h, e), body |-> b,
      stdout |-> Join(<<f.line>> \o h, e) \o e \o e \o b] :
        f \in FirstLines, h \in HeaderLines, e \in Eols, b \in ResponseBodies}
    \cup {[form |-> "headers", first |-> f, eol |-> e,
           head |-> Join(<<f.line>> \o h, e), body |-> <<>>,
           stdout |-> Join(<<f.line>> \o h, e) \o e] :
            f \in FirstLines, h \in HeaderLines, e \in Eols}
    \cup {[form |-> "empty", first |-> [line |-> <<>>, code |-> 0],
           eol |-> <<"\n">>, head |-> <<>>, body |-> <<>>, stdout |-> <<>>]}

\* what the command wrote to stderr
Stderrs == {<<>>, <<"curl: (7) Failed to connect">>}

\* the ends of subprocess.run: the command completed (with what it wrote),
\* the timeout expired, or the call raised (no bash, output that is no
\* text)
Processes ==
    {[kind |-> "completed", returncode |-> rc, out |-> o, stdout |-> o.stdout,
      stderr |-> err, message |-> <<>>] :
        rc \in {0, 7}, o \in Outputs, err \in Stderrs}
    \cup {[kind |-> "timeout", returncode |-> 0,
           out |-> CHOOSE o \in Outputs : o.form = "empty", stdout |-> <<>>,
           stderr |-> <<>>, message |-> <<>>]}
    \cup {[kind |-> "raises", returncode |-> 0,
           out |-> CHOOSE o \in Outputs : o.form = "empty", stdout |-> <<>>,
           stderr |-> <<>>, message |-> m] :
            m \in {<<"[Errno 2] No such file or directory: 'bash'">>,
                   <<"'utf-8' codec can't decode byte 0xff">>}}

InitExecute == InitCall("execute_curl", Processes)

\* one call of execute_curl(curl_command)
CallExecute == ReturnCall("execute_curl", execute_curl(call_args))

NextExecute == CallExecute

SpecExecute == InitExecute /\ [][NextExecute]_vars

-----------------------------------------------------------------------------
(* The comparison stage of test_example on long lists *)

\* a decoded response and the documented one: two lists of the same length,
\* the documented one of ones, the response with twos at its first or at its
\* last k places
ReportCalls ==
    UNION {{[example_name |-> JStr(<<"G">>),
             response_json |->
                 JList([n \in 1..len |->
                          IF (IF first THEN n <= k ELSE n > len - k)
                            THEN JInt(2) ELSE JInt(1)]),
             expected_json |-> JList([n \in 1..len |-> JInt(1)])] :
               first \in BOOLEAN, k \in 0..len} : len \in 0..MaxItems}

InitReport == InitCall("test_example.compare", ReportCalls)

\* test_example, lines 468-483, on one pair: the differences, the lines
\* logged and the value returned
CallCompareResponse ==
    LET r == compare_json_objects(call_args.response_json,
                                  call_args.expected_json, <<>>)
    IN  ReturnCall("test_example.compare",
          [differences |-> r.differences,
           returned |-> r.are_equal,
           lines |-> IF r.are_equal
                       THEN ReportMatch(<<>>, call_args.example_name)
                       ELSE ReportDifferences(<<>>, call_args.example_name,
                                              r.differences)])

NextReport == CallCompareResponse

SpecReport == InitReport /\ [][NextReport]_vars

-----------------------------------------------------------------------------
(* Properties of compare_json_objects, checked under SpecCompare *)

RECURSIVE StructurallyIdentical(_, _)
\* same type at every position, same key sets, same array lengths, same
\* scalar values
StructurallyIdentical(a, e) ==
    /\ a.t = e.t
    /\ IF a.t = "dict"
         THEN /\ Range(a.keys) = Range(e.keys)
              /\ \A key \in Range(e.keys) :
                    StructurallyIdentical(Lookup(a, key), Lookup(e, key))
       ELSE IF a.t = "list"
         THEN /\ Len(a.items) = Len(e.items)
              /\ \A n \in DOMAIN e.items :
                    StructurallyIdentical(a.items[n], e.items[n])
       ELSE a.s = e.s /\ a.chars = e.chars

\* the differences from position n on
From(d, n) == SubSeq(d, n, Len(d))

BothAre(t) == cmp_done /\ cmp_actual.t = t /\ cmp_expected.t = t

\* C8: are_equal is true exactly when actual and expected are structurally
\* identical; comparing a value with itself is equal with no difference; and
\* are_equal is true exactly when the difference list is empty.
C8_EqualIffIdentical ==
    cmp_done =>
      /\ cmp_result.are_equal
           <=> StructurallyIdentical(cmp_actual, cmp_expected)
      /\ cmp_result.are_equal <=> cmp_result.differences = <<>>
      /\ cmp_actual = cmp_expected =>
           cmp_result.are_equal /\ cmp_result.differences = <<>>

\* two dicts with the same two keys in different orders and equal nested
\* values, found equal
C8_Witness ==
    /\ BothAre("dict")
    /\ Len(cmp_actual.keys) = 2
    /\ cmp_actual.keys # cmp_expected.keys
    /\ cmp_result.are_equal

\* the dotted path of key under path
DottedKey(path, key) == IF path = <<>> THEN key ELSE path \o <<".">> \o key

\* a difference of the given kind that names key with its dotted path
NamesKey(diff, kind, path, key) ==
    /\ Head(diff) \in {kind \o " key: ", kind \o " key at "}
    /\ Tail(diff) = DottedKey(path, key)

MissingFrom(actual, expected) ==
    SelectSeq(expected.keys, LAMBDA key : ~HasKey(actual, key))

\* C9: for two mappings the difference list is one 'Missing key' difference
\* per key of expected absent from actual, then one 'Extra key' difference
\* per key of actual absent from expected, each naming the key with its
\* dotted path, then the differences of the keys present in both, compared
\* with the key appended to the path; a single missing key as the only
\* discrepancy gives exactly one difference, which mentions the key and
\* 'Missing'.
C9_DictDifferences ==
    BothAre("dict") =>
      LET a == cmp_actual
          e == cmp_expected
          d == cmp_result.differences
          missing == MissingFrom(a, e)
          extra == MissingFrom(e, a)
          common == SelectSeq(e.keys, LAMBDA key : HasKey(a, key))
          nm == Len(missing)
          nx == Len(extra)
      IN  /\ Len(d) >= nm + nx
          /\ \A i \in 1..nm : NamesKey(d[i], "Missing", cmp_path, missing[i])
          /\ \A i \in 1..nx : NamesKey(d[nm + i], "Extra", cmp_path, extra[i])
          /\ \A i \in 1..nm :
                Cardinality({j \in DOMAIN d :
                    NamesKey(d[j], "Missing", cmp_path, missing[i])}) = 1
          /\ \A i \in 1..nx :
                Cardinality({j \in DOMAIN d :
                    NamesKey(d[j], "Extra", cmp_path, extra[i])}) = 1
          /\ From(d, nm + nx + 1) =
                Concat([n \in 1..Len(common) |->
                    compare_json_objects(Lookup(a, common[n]),
                        Lookup(e, common[n]),
                        DottedKey(cmp_path, common[n])).differences])
          /\ (/\ nm = 1
              /\ nx = 0
              /\ \A n \in 1..Len(common) :
                    StructurallyIdentical(Lookup(a, common[n]),
                                          Lookup(e, common[n])))
             => /\ Len(d) = 1
                /\ Contains(d[1], missing[1])
                /\ Head(d[1]) \in {"Missing key: ", "Missing key at "}

\* a missing key, an extra key and a differing common key in one comparison
C9_Witness ==
    /\ BothAre("dict")
    /\ MissingFrom(cmp_actual, cmp_expected) # <<>>
    /\ MissingFrom(cmp_expected, cmp_actual) # <<>>
    /\ Len(cmp_result.differences) >= 3

\* the bracketed path of the item with 0-based index i under path
Bracketed(path, i) == path \o <<"[">> \o IntToStr(i) \o <<"]">>

\* a length-mismatch difference of the array at path
IsLengthDiff(diff, path) ==
    /\ Head(diff) = "List length mismatch at "
    /\ StartsWith(Tail(diff),
                  (IF path = <<>> THEN <<"root">> ELSE path) \o <<": expected ">>)

\* C10: for two arrays of different lengths the difference list is exactly
\* one length-mismatch difference for that array, then the differences of
\* the items with index below the shorter length, compared with path suffix
\* [i]; no difference is reported for an index at or beyond the shorter
\* length; arrays of equal length produce no length-mismatch difference.
C10_ListDifferences ==
    BothAre("list") =>
      LET a == cmp_actual
          e == cmp_expected
          d == cmp_result.differences
          la == Len(a.items)
          le == Len(e.items)
          shorter == IF la < le THEN la ELSE le
          longer == IF la < le THEN le ELSE la
          items == Concat([n \in 1..shorter |->
                      compare_json_objects(a.items[n], e.items[n],
                          Bracketed(cmp_path, n - 1)).differences])
      IN  /\ la # le =>
                /\ d # <<>>
                /\ IsLengthDiff(d[1], cmp_path)
                /\ Contains(d[1], IntToStr(la))
                /\ Contains(d[1], IntToStr(le))
                /\ From(d, 2) = items
          /\ la = le => d = items
          /\ Cardinality({j \in DOMAIN d : IsLengthDiff(d[j], cmp_path)})
                = (IF la # le THEN 1 ELSE 0)
          /\ \A j \in DOMAIN d : \A i \in shorter..(longer - 1) :
                ~StartsWith(Tail(d[j]), Bracketed(cmp_path, i))

\* arrays of different lengths whose common prefix differs too
C10_Witness ==
    /\ BothAre("list")
    /\ Len(cmp_actual.items) # Len(cmp_expected.items)
    /\ Len(cmp_actual.items) >= 1
    /\ Len(cmp_expected.items) >= 1
    /\ Len(cmp_result.differences) >= 2

-----------------------------------------------------------------------------
(* Properties of the runs of main *)

\* what the file declares, read off its front matter
Metadata == file.fm.metadata

TestOf ==
    IF Metadata.t = "dict" /\ HasKey(Metadata, K("test"))
      THEN Lookup(Metadata, K("test")) ELSE None

TestableOf ==
    IF TestOf.t = "dict" /\ HasKey(TestOf, K("testable"))
      THEN Lookup(TestOf, K("testable")) ELSE None

NonEmptyMapping(v) == v.t = "dict" /\ Len(v.keys) > 0

NonEmptyList(v) == v.t = "list" /\ Len(v.items) > 0

DeclaredEntries == IF TestableOf.t = "list" THEN TestableOf.items ELSE <<>>

\* test_file went on to the entries
Started == fstate \in {"Testing", "Done"}

\* the fields the schema requires
RequiredFields == {K("layout"), K("title")}

\* the validation found a required field missing, or holding a value the
\* schema does not allow
RequiredFieldError ==
    \E n \in DOMAIN tf.violations :
       \/ tf.violations[n].validator = "required"
       \/ /\ tf.violations[n].absolute_path # <<>>
          /\ tf.violations[n].absolute_path[1] \in RequiredFields

AnyFailed == \E n \in DOMAIN outcomes : outcomes[n].result = "failed"

BlockingError ==
    fstate \in {"FrontMatterMissing", "FrontMatterInvalid", "SchemaInvalid"}

RECURSIVE SumExecutions(_)
SumExecutions(os) ==
    IF os = <<>> THEN 0 ELSE Head(os).executions + SumExecutions(Tail(os))

\* C1: when the process has exited, its status is non-zero if and only if
\* an example failed or the file had a blocking front-matter or schema error
\* (front matter missing or malformed, a required-field schema error).  The
\* code exits with status zero for a file with a blocking error.
C1_ExitStatus ==
    pc = "exited" => ((exit_code # 0) <=> (AnyFailed \/ BlockingError))

\* C1, the case that fails: the process has exited with status zero for a
\* file with a blocking front-matter or schema error
C1_Witness == pc = "exited" /\ BlockingError /\ exit_code = 0

\* C2: when the process has exited, test_file went on to the testable
\* entries if and only if the file is readable, its front matter is a
\* non-empty mapping, the validation found no required-field error, test is a
\* non-empty mapping and testable a non-empty list; in every other case it
\* returned (0, 0, 0) with no request extracted or executed.  The code goes
\* on to the entries for a testable that is a string, and raises for a front
\* matter or a test that is no mapping.
C2_TestingIff ==
    pc = "exited" =>
      /\ Started <=> /\ file.readable
                     /\ NonEmptyMapping(Metadata)
                     /\ ~RequiredFieldError
                     /\ NonEmptyMapping(TestOf)
                     /\ NonEmptyList(TestableOf)
      /\ ~Started => /\ raised = ""
                     /\ tf.ret = <<0, 0, 0>>
                     /\ outcomes = <<>>
                     /\ ex = NoEx

\* C2, the case that fails: test_file went on to the entries of a testable
\* that is a string
C2_Witness == Started /\ TestableOf.t = "str" /\ raised = ""

\* the part of C2 about warnings, which the code keeps: a validation with
\* nothing but optional-field warnings does not end test_file
C2_WarningsDoNotStop ==
    (tf.violations # <<>> /\ ~RequiredFieldError) => fstate # "SchemaInvalid"

\* C3: when the process has exited after test_file went on to the entries
\* of a testable list, every declared entry has exactly one outcome, pass or
\* fail, the outcomes are in the order of the declaration, and an entry that
\* parse_testable_entry rejects is failed with no call of test_example and no
\* execution.  The code stops at an entry or a server_url that is no string,
\* and the entries after it have no outcome.
C3_OneOutcomePerEntry ==
    (pc = "exited" /\ Started /\ NonEmptyList(TestableOf)) =>
      /\ Len(outcomes) = Len(DeclaredEntries)
      /\ \A n \in DOMAIN outcomes :
           /\ outcomes[n].entry = DeclaredEntries[n]
           /\ outcomes[n].result \in {"passed", "failed"}
           /\ (~ParseEntryRaises(outcomes[n].entry)
               /\ parse_testable_entry(outcomes[n].entry) = Rejected)
                => /\ outcomes[n].result = "failed"
                   /\ ~outcomes[n].called
                   /\ outcomes[n].executions = 0

\* C3, the case that fails: the process has exited with a rejected entry
\* counted and the entry after it without an outcome
C3_Witness ==
    /\ pc = "exited"
    /\ raised # ""
    /\ Len(outcomes) = 1
    /\ parse_testable_entry(outcomes[1].entry) = Rejected
    /\ Len(DeclaredEntries) = 2

\* the part of C3 the code keeps: the entries handled so far are the first
\* of the declaration, in its order, each with one outcome, and a rejected
\* entry is failed without a call
C3_HandledInOrder ==
    NonEmptyList(TestableOf) =>
      /\ Len(outcomes) <= Len(DeclaredEntries)
      /\ \A n \in DOMAIN outcomes :
           /\ outcomes[n].entry = DeclaredEntries[n]
           /\ outcomes[n].result \in {"passed", "failed"}
           /\ parse_testable_entry(outcomes[n].entry) = Rejected
                => /\ outcomes[n].result = "failed"
                   /\ ~outcomes[n].called
                   /\ outcomes[n].executions = 0

\* C4: no exception propagates out of test_file, for any front matter, test,
\* testable and entry value.  The code raises AttributeError for an entry, a
\* front matter or a test that has no such method, TypeError for a server_url
\* or a testable of the wrong type, AssertionError for a schema file that
\* holds null.
C4_NoExceptionPropagates == raised = ""

\* C4, the case that fails: the loop over the entries has raised
\* AttributeError
C4_Witness == pc = "raised" /\ raised = "AttributeError" /\ fstate = "Testing"

\* the six checks of test_example on what the file and the server give
RequestExtracted == SectionsOf(ex.example_name)[1] = "curl"

StatusReturned == ex.status_code # None

StatusExpected == InList(ex.status_code, ex.expected_codes)

BodyIsJson == ex.body.decodes

ResponseExtracted == SectionsOf(ex.example_name)[2].kind = "json"

ResponsesEqual ==
    StructurallyIdentical(ex.body.value, SectionsOf(ex.example_name)[2].value)

\* the number of the first check that fails, 7 when none does
FirstFailing ==
    IF ~RequestExtracted THEN 1
    ELSE IF ~StatusReturned THEN 2
    ELSE IF ~StatusExpected THEN 3
    ELSE IF ~BodyIsJson THEN 4
    ELSE IF ~ResponseExtracted THEN 5
    ELSE IF ~ResponsesEqual THEN 6
    ELSE 7

Steps ==
    <<"extract_request", "execute", "check_status", "parse_body",
      "extract_expected", "compare">>

StepsUpTo(k) == SubSeq(Steps, 1, IF k > 6 THEN 6 ELSE k)

Returned == ex.result \in {"True", "False"}

\* C5: when test_example has returned, it returned True if and only if the
\* request was extracted, the execution returned a status code, the code is
\* an expected one, the body is JSON, the documented response was extracted
\* and the two values are equal; the steps it ran are the checks up to the
\* first that fails.  The code returns False at the fifth check for a
\* documented response that is the JSON value null.
C5_TrueIffAllSix ==
    Returned =>
      /\ (ex.result = "True") <=> (FirstFailing = 7)
      /\ ex.steps = StepsUpTo(FirstFailing)

\* C5, the case that fails: test_example returned False with all of the six
\* checks passing
C5_Witness == Returned /\ ex.result = "False" /\ FirstFailing = 7

\* the documented response is the JSON value null
DocumentedNull ==
    /\ SectionsOf(ex.example_name)[2].kind = "json"
    /\ SectionsOf(ex.example_name)[2].value = None

\* the part of C5 the code keeps: the same for every example whose
\* documented response, where the run gets to it, is not null
C5_ExceptDocumentedNull ==
    (Returned /\ ~(FirstFailing >= 5 /\ DocumentedNull)) =>
      /\ (ex.result = "True") <=> (FirstFailing = 7)
      /\ ex.steps = StepsUpTo(FirstFailing)

\* a declared entry with a request section to execute
Executable(entry) ==
    /\ ~ParseEntryRaises(entry)
    /\ parse_testable_entry(entry) # Rejected
    /\ SectionsOf(parse_testable_entry(entry).name)[1] = "curl"

\* C6: when the process has exited after test_file went on to the entries
\* of a testable list, every declared entry whose request
\* section can be extracted was executed exactly once, every other entry
\* never, and the executions are at most as many as the declared entries.
\* The code executes no request after an entry or a server_url that is no
\* string has raised.
C6_ExecutedOnce ==
    (pc = "exited" /\ Started /\ NonEmptyList(TestableOf)) =>
      /\ \A n \in DOMAIN DeclaredEntries :
           IF Executable(DeclaredEntries[n])
             THEN n \in DOMAIN outcomes /\ outcomes[n].executions = 1
             ELSE n \in DOMAIN outcomes => outcomes[n].executions = 0
      /\ SumExecutions(outcomes) <= Len(DeclaredEntries)

\* C6, the case that fails: the process has exited after TypeError with a
\* declared entry whose request section can be extracted and no execution
C6_Witness ==
    /\ pc = "exited"
    /\ raised = "TypeError"
    /\ Started
    /\ \E n \in DOMAIN DeclaredEntries : Executable(DeclaredEntries[n])
    /\ SumExecutions(outcomes) = 0
    /\ ex.executions = 0

\* the part of C6 the code keeps: a call of test_example that returns has
\* executed once if the request section was extracted and never otherwise,
\* no call executes twice, and the executions are at most as many as the
\* entries
C6_ReturnedCallsExecuteOnce ==
    /\ ex.executions <= 1
    /\ Returned => (ex.executions = 1 <=> RequestExtracted)
    /\ \A n \in DOMAIN outcomes :
         /\ outcomes[n].executions <= 1
         /\ ~outcomes[n].called => outcomes[n].executions = 0
    /\ SumExecutions(outcomes) <= Len(tf.testable)

\* the warning and error diagnostics among the lines
Alerts(lines) == SelectSeq(lines, LAMBDA l : l.level \in {"warning", "error"})

\* the last thing test_file did is a call of test_example that returned:
\* diags holds the lines of that call
CallReturned ==
    /\ pc = "loop"
    /\ Returned
    /\ outcomes # <<>>
    /\ outcomes[Len(outcomes)].called

\* the messages the k-th failure path can log for the example of the call
Messages(k) ==
    CASE k = 1 -> {RequestMissingMsg(ex.example_name)}
      [] k = 2 -> {ExecutionFailedMsg(ex.example_name, r.body) :
                     r \in {e \in ExecResults : e.status_code = None}}
      [] k = 3 -> {UnexpectedStatusMsg(ex.example_name, ex.expected_codes,
                                       r.status_code) :
                     r \in {e \in ExecResults : e.status_code # None}}
      [] k = 4 -> {NotJsonMsg(ex.example_name)}
      [] k = 5 -> {ResponseMissingMsg(ex.example_name)}
      [] k = 6 -> {MismatchMsg(ex.example_name)}

\* the severity the specification gives the k-th class of failure
Severity(k) == IF k \in {1, 5} THEN "warning" ELSE "error"

\* one diagnostic, of the k-th class
OneAlertOfClass(k) ==
    /\ Len(Alerts(diags)) = 1
    /\ Alerts(diags)[1].level = Severity(k)
    /\ Alerts(diags)[1].message \in Messages(k)

\* C7: a call of test_example that returned False logged exactly one
\* warning or error, of the severity and with the message of the first check
\* that fails (warning for a missing request section and for a missing or
\* malformed documented response, error for the four others), a message none
\* of the five other failure paths logs; a call that returned True logged no
\* warning and no error.  The code logs the warning of a missing response for
\* a documented response that is the JSON value null.
C7_OneDiagnosticPerFailure ==
    CallReturned =>
      IF ex.result = "True" THEN Alerts(diags) = <<>>
      ELSE /\ FirstFailing <= 6
           /\ OneAlertOfClass(FirstFailing)
           /\ \A k \in (1..6) \ {FirstFailing} :
                Alerts(diags)[1].message \notin Messages(k)

\* C7, the case that fails: test_example returned False with a warning for
\* a response that differs from the documented one
C7_Witness ==
    /\ CallReturned
    /\ ex.result = "False"
    /\ FirstFailing = 6
    /\ Alerts(diags)[1].level = "warning"

\* the failure path a call that returned False took
PathTaken == Len(ex.steps)

\* the messages of an execution failure whose text, what the failed command
\* wrote, is the text of the message of another path
SharedMessages ==
    {ExecutionFailedMsg(ex.example_name, ErrorBody(<<t>>)) :
       t \in {"Response is not valid JSON",
              "Response does not match documentation"}}

\* the part of C7 the code keeps: one warning or error for each False
\* return, of the severity and with the message of the path taken, no
\* warning or error for a True return; the message is none of another path,
\* unless one of the two paths is the execution failure and the text the
\* failed command wrote is the text of the other path's message
C7_OneDiagnosticPerPath ==
    CallReturned =>
      IF ex.result = "True" THEN Alerts(diags) = <<>>
      ELSE /\ OneAlertOfClass(PathTaken)
           /\ \A k \in (1..6) \ {PathTaken} :
                \/ Alerts(diags)[1].message \notin Messages(k)
                \/ /\ 2 \in {k, PathTaken}
                   /\ Alerts(diags)[1].message \in SharedMessages

-----------------------------------------------------------------------------
(* Properties of parse_testable_entry *)

ParsedEntry == call_fn = "parse_testable_entry" /\ call_done

\* the result (name, [c1..cn])
Accepted(name, codes) ==
    [name |-> JStr(name),
     codes |-> JList([i \in DOMAIN codes |-> JInt(codes[i])])]

\* C11: parse_testable_entry applied to 'name / c1,...,cn', with whitespace
\* around the name and around each code, returns the trimmed name and the
\* codes in the written order; applied to the name alone it returns the name
\* and [200]; applied to an entry of blank characters or none, to codes
\* after an empty name, or to codes with a token that is no number, it
\* returns (None, None).
C11_ParsesWrittenEntries ==
    ParsedEntry =>
      CASE call_args.kind = "codes" ->
             call_result = Accepted(call_args.name, call_args.codes)
        [] call_args.kind = "alone" ->
             call_result = Accepted(call_args.name, <<200>>)
        [] call_args.kind \in {"blank", "noname", "nonnumeric"} ->
             call_result = Rejected
        [] OTHER -> TRUE

\* C11, a case: a name of two words and two codes, all with whitespace
\* around them, parsed to the trimmed name and the codes in their order
C11_Witness ==
    /\ ParsedEntry
    /\ call_args.entry = <<" ", "G", " ", "e", " ", "/",
                           " ", "2", "0", "1", " ", ",", " ", "5", " ">>
    /\ call_result = Accepted(<<"G", " ", "e">>, <<201, 5>>)

\* C12: parse_testable_entry returns (None, None) for a code list with an
\* empty token (a leading comma, a trailing comma, two adjacent commas).
\* The code drops the empty tokens and accepts the entry.
C12_EmptyTokenRejected ==
    (ParsedEntry /\ call_args.kind = "emptytoken") => call_result = Rejected

\* C12, the case that fails: 'G / 200,' parsed to ('G', [200])
C12_Witness ==
    /\ ParsedEntry
    /\ call_args.entry = <<"G", " ", "/", " ", "2", "0", "0", ",">>
    /\ call_result = Accepted(<<"G">>, <<200>>)

\* what the code does with an empty token: the entry is accepted with the
\* codes of the other tokens
C12_EmptyTokensDropped ==
    (ParsedEntry /\ call_args.kind = "emptytoken") =>
      call_result = Accepted(call_args.name, call_args.codes)

-----------------------------------------------------------------------------
(* Properties of parse_front_matter_with_errors *)

ParsedContent == call_fn = "parse_front_matter_with_errors" /\ call_done

\* a line that is the delimiter: '---', then spaces or tabs and nothing else
IsDelimiter(line) ==
    /\ StartsWith(line, Dashes)
    /\ \A i \in 4..Len(line) : line[i] \in {" ", "\t"}

\* the lines after the first that are a delimiter
ClosingLines(lines) == {j \in 2..Len(lines) : IsDelimiter(lines[j])}

\* the first line is the delimiter and a later line is
BlockWritten(lines) ==
    /\ lines # <<>>
    /\ IsDelimiter(lines[1])
    /\ ClosingLines(lines) # {}

\* the lines strictly between the first line and the first closing line
Enclosed(lines) ==
    LET j == CHOOSE k \in ClosingLines(lines) :
                \A m \in ClosingLines(lines) : k <= m
    IN  Join(SubSeq(lines, 2, j - 1), <<"\n">>)

\* C13: parse_front_matter_with_errors recognizes a block exactly when the
\* first line is '---' (spaces or tabs may follow) and a later line is
\* '---' (spaces or tabs may follow, nothing else), and the enclosed text is
\* then the lines strictly between the first line and the first such line.
\* The code takes a later line that only starts with '---' for the closing
\* line, and does not take the line right after the opening line for it.
C13_RecognizesBlock ==
    ParsedContent =>
      /\ call_result.fm.matched <=> BlockWritten(call_args.lines)
      /\ BlockWritten(call_args.lines) =>
           call_result.fm.group1 = Enclosed(call_args.lines)

\* C13, a case that fails: an opening line, YAML and a closing line with
\* another character after the dashes, recognized
C13_Witness ==
    /\ ParsedContent
    /\ call_args.lines = <<Dashes, <<"a", ":", " ", "1">>, Dashes \o <<"x">>>>
    /\ call_result.fm.matched

\* what the code recognizes: a first line that is the delimiter and, from
\* the third line on, a line that starts with '---'; the enclosed text is
\* the lines between the two
C13_AsCoded ==
    ParsedContent =>
      LET lines == call_args.lines
          closing == {j \in 3..Len(lines) : StartsWith(lines[j], Dashes)}
      IN  /\ call_result.fm.matched <=>
                (lines # <<>> /\ IsDelimiter(lines[1]) /\ closing # {})
          /\ call_result.fm.matched =>
               call_result.fm.group1 =
                  Join(SubSeq(lines, 2,
                         (CHOOSE k \in closing : \A m \in closing : k <= m) - 1),
                       <<"\n">>)

\* the message mentions front matter
MentionsFrontMatter(message) ==
    \E i \in DOMAIN message.chars :
       message.chars[i] \in {"Front matter", "front matter"}

\* the delimiter comes after whitespace at the start of the content
DelimiterAfterWhitespace(content) ==
    LStrip(content) # content /\ StartsWith(LStrip(content), Dashes)

\* the guidance for a content with no block, by the priority of the
\* specification
Guidance(doc) ==
    IF DelimiterAfterWhitespace(doc.content) THEN LeadingWhitespaceMsg
    ELSE IF doc.lines # <<>> /\ StartsWith(doc.lines[1], Dashes)
                             /\ ClosingLines(doc.lines) = {}
      THEN NoClosingMsg
    ELSE NoFrontMatterMsg

\* C14: for a content in which no block is written, the result is (None,
\* message, 1) with a message that mentions front matter: the one about
\* leading whitespace when whitespace comes before the delimiter, else the
\* one about the missing closing delimiter when the content starts with the
\* delimiter and has no closing delimiter, else the general one; the three
\* messages are pairwise different.  The code returns the decoded YAML, and
\* no message, for a block closed by a line with other characters after the
\* dashes.
C14_Guidance ==
    /\ Cardinality({LeadingWhitespaceMsg, NoClosingMsg, NoFrontMatterMsg}) = 3
    /\ (ParsedContent /\ ~BlockWritten(call_args.lines)) =>
         /\ call_result.metadata = None
         /\ call_result.error_message = JStr(Guidance(call_args))
         /\ MentionsFrontMatter(call_result.error_message)
         /\ call_result.error_line = JInt(1)

\* C14, the case that fails: no closing delimiter written, and the result
\* is a mapping with no message
C14_Witness ==
    /\ ParsedContent
    /\ ~BlockWritten(call_args.lines)
    /\ call_result.metadata.t = "dict"
    /\ call_result.error_message = None

\* what the code does where it recognizes no block: (None, message, 1) with
\* a message that mentions front matter, about leading whitespace first,
\* else about the closing delimiter when the content starts with '---', else
\* the general one
C14_AsCoded ==
    /\ Cardinality({LeadingWhitespaceMsg, NoClosingMsg, NoFrontMatterMsg}) = 3
    /\ (ParsedContent /\ ~call_result.fm.matched) =>
         /\ call_result.metadata = None
         /\ call_result.error_message =
              JStr(IF DelimiterAfterWhitespace(call_args.content)
                     THEN LeadingWhitespaceMsg
                   ELSE IF StartsWith(call_args.content, Dashes)
                     THEN NoClosingMsg
                   ELSE NoFrontMatterMsg)
         /\ MentionsFrontMatter(call_result.error_message)
         /\ call_result.error_line = JInt(1)

\* C15: in every result metadata is None exactly when error_message is not
\* None; a recognized block whose text decodes yields a mapping equal to the
\* decoded text with error_message None and error_line None; every failure
\* yields metadata None with a message.  The code returns (None, None, None)
\* for a block whose text decodes to null, and a list or a string for a text
\* that decodes to one.
C15_MetadataOrMessage ==
    ParsedContent =>
      /\ (call_result.metadata = None) <=> (call_result.error_message # None)
      /\ (call_result.fm.matched /\ ~call_result.loaded.raises) =>
           /\ call_result.metadata.t = "dict"
           /\ call_result.metadata = call_result.loaded.value
           /\ call_result.error_message = None
           /\ call_result.error_line = None
      /\ (~call_result.fm.matched \/ call_result.loaded.raises) =>
           /\ call_result.metadata = None
           /\ call_result.error_message # None

\* C15, the case that fails: a block of one empty line, and the result is
\* (None, None, None)
C15_Witness ==
    /\ ParsedContent
    /\ call_args.lines = <<Dashes, <<>>, Dashes>>
    /\ call_result.metadata = None
    /\ call_result.error_message = None
    /\ call_result.error_line = None

\* what the code keeps of C15: a message comes with metadata None, metadata
\* that is not None comes with no message and no line, a recognized block
\* whose text decodes yields the decoded value, and every failure yields
\* None with a message
C15_AsCoded ==
    ParsedContent =>
      /\ (call_result.error_message # None) => (call_result.metadata = None)
      /\ (call_result.fm.matched /\ ~call_result.loaded.raises) =>
           /\ call_result.metadata = call_result.loaded.value
           /\ call_result.error_message = None
           /\ call_result.error_line = None
      /\ (~call_result.fm.matched \/ call_result.loaded.raises) =>
           /\ call_result.metadata = None
           /\ call_result.error_message # None

-----------------------------------------------------------------------------
(* Properties of the section locator, checked under SpecLocator *)

CurlCalled == call_fn = "extract_curl_command" /\ call_done

ResponseCalled == call_fn = "extract_expected_response" /\ call_done

LocatorCalled == CurlCalled \/ ResponseCalled

\* the word of the heading the called locator looks for
CalledWord ==
    IF call_fn = "extract_curl_command" THEN RequestWord ELSE ResponseWord

\* the fences with the tag the called locator expects
CalledFences ==
    IF call_fn = "extract_curl_command" THEN {FenceBash, FenceSh}
    ELSE {FenceJson}

\* the heading h is written as the heading of the section of the word: at
\* column 0, three or four '#', each word plain or wrapped in backticks,
\* then the word and nothing after it
HeadingOf(h, word) ==
    /\ h.indent = <<>>
    /\ h.hashes \in {3, 4}
    /\ h.ticks \in {"plain", "wrapped", "first"}
    /\ h.word = word
    /\ h.suffix = <<>>

\* a markdown heading line is among the lines
HoldsHeading(lines) ==
    \E i \in DOMAIN lines : lines[i] # <<>> /\ lines[i][1] = "#"

\* C16: when the heading of the example is followed, before any other
\* heading, by a fenced block with the expected tag, the locator collects
\* exactly the lines between the opening fence and the first closing fence,
\* whatever they contain, and a request locator returns a command; when
\* another heading comes before the fence the locator returns None.  The
\* code stops at a collected line that begins with '#'.
C16_CollectsBlock ==
    (/\ LocatorCalled
     /\ HeadingOf(call_args.doc.h, CalledWord)
     /\ call_args.doc.tag \in CalledFences) =>
      /\ (/\ ~HoldsHeading(call_args.doc.mid)
          /\ call_args.doc.closed
          /\ call_args.doc.block # <<>>) =>
            /\ call_result.elements = call_args.doc.block
            /\ CurlCalled => call_result.value # None
      /\ HoldsHeading(call_args.doc.mid) => call_result.value = None

\* C16, the case that fails: a block of a comment line and a command, of
\* which the comment line alone is collected
C16_Witness ==
    /\ CurlCalled
    /\ HeadingOf(call_args.doc.h, RequestWord)
    /\ call_args.doc.mid = <<>>
    /\ call_args.doc.tag = FenceBash
    /\ call_args.doc.closed
    /\ call_args.doc.block = <<CommentLine, <<"c", "u", "r", "l", " ", "{", "s", "e", "r", "v", "e", "r", "_", "u", "r", "l", "}", "/", "u">>>>
    /\ call_result.elements = <<CommentLine>>

\* the lines of a block up to and with the first that begins with '#'
UpToComment(block) ==
    LET marked == {i \in DOMAIN block : block[i] # <<>> /\ block[i][1] = "#"}
    IN  IF marked = {} THEN block
        ELSE SubSeq(block, 1, CHOOSE i \in marked : \A j \in marked : i <= j)

\* what the code collects where C16 applies: the lines of the block up to
\* and with the first line that begins with '#', and None after another
\* heading
C16_AsCoded ==
    (/\ LocatorCalled
     /\ HeadingOf(call_args.doc.h, CalledWord)
     /\ call_args.doc.tag \in CalledFences) =>
      /\ ~HoldsHeading(call_args.doc.mid) =>
            call_result.elements = UpToComment(call_args.doc.block)
      /\ HoldsHeading(call_args.doc.mid) => call_result.value = None

\* C17: a line is accepted as the heading of the request (response) section
\* of the example exactly when it starts at column 0 with three or four
\* '#', then whitespace, the words of the name each optionally wrapped in
\* backticks, whitespace and the word request (response), in any case.  The
\* code also accepts a longer word that starts with request (response) and a
\* backtick on one side of a word only.
C17_HeadingAccepted ==
    LocatorCalled =>
      (call_result.found <=> HeadingOf(call_args.doc.h, CalledWord))

\* C17, a case that fails: the heading ends with the word and an s, and is
\* accepted
C17_Witness ==
    /\ LocatorCalled
    /\ call_args.doc.h.suffix = <<"s">>
    /\ call_args.doc.h.ticks = "plain"
    /\ call_args.doc.h.word = CalledWord
    /\ call_result.found

\* what the code accepts: three or four '#' at column 0 and the word of the
\* locator, with any of the backticks and whatever follows the word; no
\* other level and not the word of the other locator
C17_AsCoded ==
    LocatorCalled =>
      (call_result.found <=>
         /\ call_args.doc.h.indent = <<>>
         /\ call_args.doc.h.hashes \in {3, 4}
         /\ call_args.doc.h.word = CalledWord)

\* the first place where sub occurs in text, 0 when it does not
FirstIndex(text, sub) ==
    LET places == {i \in 1..(Len(text) - Len(sub) + 1) :
                      SubSeq(text, i, i + Len(sub) - 1) = sub}
    IN  IF places = {} THEN 0
        ELSE CHOOSE i \in places : \A j \in places : i <= j

\* the flag is given as an argument of text: between whitespace or the ends
HasArgument(text, flag) ==
    \E i \in 1..(Len(text) - Len(flag) + 1) :
       /\ SubSeq(text, i, i + Len(flag) - 1) = flag
       /\ i = 1 \/ text[i - 1] \in Whitespace
       /\ i + Len(flag) - 1 = Len(text) \/ text[i + Len(flag)] \in Whitespace

\* text with ' -i' right after its first curl, text itself without a curl
WithInclude(text) ==
    LET i == FirstIndex(text, Curl)
    IN  IF i = 0 THEN text
        ELSE SubSeq(text, 1, i + 3) \o <<" ", "-", "i">> \o SubSeq(text, i + 4, Len(text))

RECURSIVE Substituted(_, _)
\* text with url in the place of every placeholder
Substituted(text, url) ==
    LET i == FirstIndex(text, Placeholder)
    IN  IF i = 0 THEN text
        ELSE SubSeq(text, 1, i - 1) \o url
                \o Substituted(SubSeq(text, i + Len(Placeholder), Len(text)),
                               url)

\* the text collected by the call: the lines joined and trimmed
CollectedText == Strip(Join(call_result.elements, <<"\n">>))

\* C18: a command returned for a curl request with a server_url has ' -i'
\* right after its first curl, and nowhere else, when the collected text
\* has neither -i nor --include as an argument, and is the collected text
\* (with the server_url) when it has one.  The code looks for -i anywhere
\* in the text, inside another word too.
C18_IncludeFlag ==
    (/\ CurlCalled
     /\ call_result.value # None
     /\ Contains(CollectedText, Curl)
     /\ call_args.server_url # <<>>) =>
       call_result.value.chars =
          Substituted(IF \/ HasArgument(CollectedText, <<"-", "i">>)
                         \/ HasArgument(CollectedText, <<"-", "-", "i", "n", "c", "l", "u", "d", "e">>)
                        THEN CollectedText
                        ELSE WithInclude(CollectedText),
                      call_args.server_url)

\* C18, the case that fails: a command with -i inside its URL, returned as
\* it is written
C18_Witness ==
    /\ CurlCalled
    /\ call_args.server_url # <<>>
    /\ CollectedText = <<"c", "u", "r", "l", " ", "x", "/", "b", "y", "-", "i", "d">>
    /\ call_result.value = JStr(<<"c", "u", "r", "l", " ", "x", "/", "b", "y", "-", "i", "d">>)

\* what the code does for C18: ' -i' after the first curl exactly when -i
\* occurs nowhere in the collected text
C18_AsCoded ==
    (/\ CurlCalled
     /\ call_result.value # None
     /\ Contains(CollectedText, Curl)
     /\ call_args.server_url # <<>>) =>
       call_result.value.chars =
          Substituted(IF FirstIndex(CollectedText, <<"-", "i">>) # 0
                        THEN CollectedText
                        ELSE WithInclude(CollectedText),
                      call_args.server_url)

\* C19: a command returned by extract_curl_command never holds the
\* placeholder: it is the collected text, with or without the inserted
\* flag, with the server_url in the place of every placeholder, and the
\* flag is inserted whenever the collected text itself holds no -i,
\* whatever the server_url holds.  The code leaves the placeholder where
\* the server_url is empty.
C19_PlaceholderReplaced ==
    (CurlCalled /\ call_result.value # None) =>
      /\ ~Contains(call_result.value.chars, Placeholder)
      /\ call_result.value.chars \in
            {Substituted(CollectedText, call_args.server_url),
             Substituted(WithInclude(CollectedText), call_args.server_url)}
      /\ (Contains(CollectedText, Curl) /\ ~Contains(CollectedText, <<"-", "i">>)) =>
            call_result.value.chars =
               Substituted(WithInclude(CollectedText), call_args.server_url)

\* C19, the case that fails: no server_url, and the command returned holds
\* the placeholder
C19_Witness ==
    /\ CurlCalled
    /\ call_args.server_url = <<>>
    /\ call_result.value # None
    /\ Contains(call_result.value.chars, Placeholder)

\* what the code does for C19: with a server_url that is not empty the
\* placeholder is replaced everywhere and the rest is unchanged, and the
\* flag is decided on the collected text
C19_AsCoded ==
    (CurlCalled /\ call_result.value # None /\ call_args.server_url # <<>>) =>
      /\ ~Contains(call_result.value.chars, Placeholder)
      /\ call_result.value.chars \in
            {Substituted(CollectedText, call_args.server_url),
             Substituted(WithInclude(CollectedText), call_args.server_url)}
      /\ (Contains(CollectedText, Curl) /\ ~Contains(CollectedText, <<"-", "i">>)) =>
            call_result.value.chars =
               Substituted(WithInclude(CollectedText), call_args.server_url)

NotBlank(line) == line # <<>>

\* the lines of the block are one JSON text: null or 1, and empty lines
DocumentedJson(block) ==
    /\ Len(SelectSeq(block, NotBlank)) = 1
    /\ SelectSeq(block, NotBlank)[1] \in {<<"n", "u", "l", "l">>, <<"1">>}

\* the response section is written: the heading the locator matches, then
\* a json fence before any other heading
ResponseWritten ==
    /\ call_result.found
    /\ ~HoldsHeading(call_args.doc.mid)
    /\ call_args.doc.tag = FenceJson

\* C20: extract_expected_response returns None exactly when the response
\* section is absent or its text is no JSON; a documented JSON text,
\* whatever its value, is returned as a present value.  The code returns
\* None for the documented text null.
C20_NoneIffAbsentOrMalformed ==
    ResponseCalled =>
      (call_result.value = None <=>
         ~(ResponseWritten /\ DocumentedJson(call_args.doc.block)))

\* C20, the case that fails: the documented response null, and the result
\* None
C20_Witness ==
    /\ ResponseCalled
    /\ ResponseWritten
    /\ call_args.doc.block = <<<<"n", "u", "l", "l">>>>
    /\ call_result.value = None

\* what the code returns: the number 1 for the documented text 1, and None
\* for an absent section, a text that is no JSON and the text null
C20_AsCoded ==
    ResponseCalled =>
      call_result.value =
         IF /\ ResponseWritten
            /\ DocumentedJson(call_args.doc.block)
            /\ SelectSeq(call_args.doc.block, NotBlank)[1] = <<"1">>
           THEN JInt(1) ELSE None

-----------------------------------------------------------------------------
(* Properties of validate_front_matter_schema, checked under SpecValidate *)

ValidateCalled == call_fn = "validate_front_matter_schema" /\ call_done

\* the call returned a result
ValidateReturned == ValidateCalled /\ call_result.result.raised = ""

\* the fields the schema the call loaded lists as required
RequiredOf(schema) ==
    IF schema = TheSchema THEN {K("layout"), K("title")} ELSE {}

\* C21: in every result of validate_front_matter_schema is_valid is false
\* exactly when a violation was classified as a required-field violation,
\* which is when errors is not empty; has_warnings is true exactly when
\* warnings is not empty; every violation is in exactly one of the two
\* lists; violations that are not classified as required never change
\* is_valid.
C21_ValidIffNoRequiredViolation ==
    ValidateReturned =>
      LET r == call_result.result
          vs == call_args.env.violations
          required == {n \in DOMAIN vs : call_result.is_required[n]}
      IN  /\ ~r.is_valid <=> required # {}
          /\ ~r.is_valid <=> r.errors # <<>>
          /\ r.has_warnings <=> r.warnings # <<>>
          /\ Len(r.errors) = Cardinality(required)
          /\ Len(r.warnings) = Len(vs) - Cardinality(required)
          /\ \A n \in DOMAIN vs :
                LET message ==
                      categorize_validation_error(vs[n], call_result.schema).message
                IN  /\ (message \in Range(r.errors)) <=> (n \in required)
                    /\ (message \in Range(r.warnings)) <=> (n \notin required)

\* C21, its case: a violation of a required field with one of an optional
\* field, and a result that is not valid and has a warning
C21_Witness ==
    /\ ValidateReturned
    /\ Len(call_args.env.violations) = 2
    /\ Len(call_result.result.errors) = 1
    /\ Len(call_result.result.warnings) = 1
    /\ ~call_result.result.is_valid
    /\ call_result.result.has_warnings

\* C22: a violation is classified required exactly when its keyword is
\* required or the first component of its path is in the required list of
\* the schema, whatever the keyword; every other violation is optional.
\* The code classifies a violation of a required field as required only
\* for the keywords enum, type, format, pattern, minimum, maximum,
\* minLength and maxLength.
C22_RequiredIffKeywordOrField ==
    ValidateReturned =>
      \A n \in DOMAIN call_args.env.violations :
         LET v == call_args.env.violations[n]
         IN  call_result.is_required[n] <=>
               \/ v.validator = "required"
               \/ /\ v.absolute_path # <<>>
                  /\ v.absolute_path[1] \in RequiredOf(call_result.schema)

\* C22, the case that fails: the const of the required field layout does
\* not hold, and the violation is a warning of a valid front matter
C22_Witness ==
    /\ ValidateReturned
    /\ call_result.schema = TheSchema
    /\ Len(call_args.env.violations) = 1
    /\ call_args.env.violations[1].validator = "const"
    /\ call_args.env.violations[1].absolute_path = <<K("layout")>>
    /\ ~call_result.is_required[1]
    /\ call_result.result.is_valid

\* what the code classifies as required: the keyword required, and the
\* keywords of values, types and formats on a field of the required list
C22_AsCoded ==
    ValidateReturned =>
      \A n \in DOMAIN call_args.env.violations :
         LET v == call_args.env.violations[n]
         IN  call_result.is_required[n] <=>
               \/ v.validator = "required"
               \/ /\ v.validator \in {"enum"} \cup FormatValidators
                  /\ v.absolute_path # <<>>
                  /\ v.absolute_path[1] \in RequiredOf(call_result.schema)

\* the validation cannot be performed: no jsonschema, or load_schema
\* returned None
CannotValidate ==
    ~call_args.env.jsonschema \/ call_result.schema = None

\* C24: whenever the validation cannot be performed
\* validate_front_matter_schema raises nothing and returns (True, False,
\* [], []) after logging exactly one diagnostic, of level warning.  The
\* code raises AssertionError when load_schema returned None and the read
\* that follows finds a file that holds JSON.
C24_SkipsValidation ==
    (ValidateCalled /\ CannotValidate) =>
      LET r == call_result.result
      IN  /\ r.raised = ""
          /\ r.is_valid /\ ~r.has_warnings
          /\ r.errors = <<>> /\ r.warnings = <<>>
          /\ Len(r.lines) = 1
          /\ r.lines[1].level = "warning"

\* C24, the case that fails: no file when load_schema reads, the file of a
\* schema when the path is read again, and AssertionError
C24_Witness ==
    /\ ValidateCalled
    /\ call_args.env.jsonschema
    /\ call_args.cache = <<>>
    /\ call_args.env.disk.kind = "missing"
    /\ call_args.env.reread = [kind |-> "json", value |-> TheSchema]
    /\ call_result.result.raised = "AssertionError"

\* what the code does when the validation cannot be performed and the read
\* that follows load_schema fails as well, or jsonschema is missing: (True,
\* False, [], []) after one warning
C24_AsCoded ==
    (/\ ValidateCalled
     /\ CannotValidate
     /\ ~call_args.env.jsonschema \/ call_args.env.reread.kind # "json") =>
      LET r == call_result.result
      IN  /\ r.raised = ""
          /\ r.is_valid /\ ~r.has_warnings
          /\ r.errors = <<>> /\ r.warnings = <<>>
          /\ Len(r.lines) = 1
          /\ r.lines[1].level = "warning"

\* C29: the assertion that the schema is not None holds in every call of
\* validate_front_matter_schema, for every content of the schema file and
\* also when the file changes between the two reads.  The code fails the
\* assertion for a schema file that holds null, and for a file that holds
\* JSON only at the second read.
C29_AssertionHolds ==
    ValidateCalled => call_result.result.raised # "AssertionError"

\* C29, the case that fails: a schema file that holds null at both reads
C29_Witness ==
    /\ ValidateCalled
    /\ call_args.cache = <<>>
    /\ call_args.env.disk = [kind |-> "json", value |-> None]
    /\ call_args.env.reread = call_args.env.disk
    /\ call_result.result.raised = "AssertionError"

\* when the assertion fails in the code: jsonschema is there, load_schema
\* returned None, and the second read finds JSON
C29_AsCoded ==
    ValidateCalled =>
      (call_result.result.raised = "AssertionError" <=>
         /\ call_args.env.jsonschema
         /\ call_result.schema = None
         /\ call_args.env.reread.kind = "json")

-----------------------------------------------------------------------------
(* Properties of load_schema and clear_schema_cache, checked under         *)
(* SpecCache                                                               *)

LoadCalled == call_fn = "load_schema"

\* the call came after a load of the path that succeeded, with no clear
\* between the two
LoadedBefore ==
    /\ call_args.path \in DOMAIN call_args.cache
    /\ call_args.cache[call_args.path] # None

\* the cache holds for the paths other than p what the cache before held
OthersUntouched(p, before, after) ==
    \A q \in SchemaPaths \ {p} :
       /\ q \in DOMAIN after <=> q \in DOMAIN before
       /\ q \in DOMAIN before => after[q] = before[q]

\* C23: after load_schema(p) has succeeded every later load_schema(p)
\* returns the same schema and does not read the file, whatever the file
\* holds, until clear_schema_cache; after clear_schema_cache the cache has
\* no entry and the next load_schema(p) reads the file; the entries of the
\* other paths are not affected.  So the file of a path is not read again
\* between its load and the next clear.
C23_LoadedOnce ==
    /\ (LoadCalled /\ LoadedBefore) =>
          /\ call_result = call_args.cache[call_args.path]
          /\ reads = call_args.reads
          /\ schema_cache = call_args.cache
    /\ (LoadCalled /\ call_args.path \notin DOMAIN call_args.cache) =>
          /\ reads[call_args.path] = call_args.reads[call_args.path] + 1
          /\ call_args.file.kind = "json" => call_result = call_args.file.value
    /\ LoadCalled =>
          OthersUntouched(call_args.path, call_args.cache, schema_cache)
    /\ call_fn = "clear_schema_cache" =>
          schema_cache = <<>> /\ \A p \in SchemaPaths : reads[p] = 0

\* C23, its case: a load of a path loaded before, whose file no longer
\* holds the schema, with a schema of the other path in the cache
C23_Witness ==
    /\ LoadCalled
    /\ LoadedBefore
    /\ call_args.file # [kind |-> "json", value |-> call_result]
    /\ call_result = TheSchema
    /\ \E q \in SchemaPaths \ {call_args.path} :
          q \in DOMAIN schema_cache /\ schema_cache[q] = OtherSchema

\* C30: a load_schema that returns None leaves the cache as it was; a
\* load_schema of a path with no schema loaded, whose file holds a schema,
\* returns that schema; the cache holds no None.  The code stores the None
\* of a file that holds null and returns it from then on.
C30_FailureLeavesCache ==
    /\ (LoadCalled /\ call_result = None) => schema_cache = call_args.cache
    /\ (/\ LoadCalled
        /\ ~LoadedBefore
        /\ call_args.file.kind = "json"
        /\ call_args.file.value # None) => call_result = call_args.file.value
    /\ \A p \in DOMAIN schema_cache : schema_cache[p] # None

\* C30, the case that fails: the file held null at an earlier load, holds a
\* schema now, and load_schema returns None
C30_Witness ==
    /\ LoadCalled
    /\ call_args.path \in DOMAIN call_args.cache
    /\ call_args.file = [kind |-> "json", value |-> TheSchema]
    /\ call_result = None

\* what the code keeps of C30: a load that fails on a missing file, on text
\* that is no JSON or on a file that cannot be read leaves the cache as it
\* was, and the next load of the path reads the file
C30_AsCoded ==
    /\ (LoadCalled /\ call_args.path \notin DOMAIN call_args.cache
                   /\ call_args.file.kind # "json") =>
          /\ call_result = None
          /\ schema_cache = call_args.cache
    /\ (LoadCalled /\ call_args.path \notin DOMAIN call_args.cache
                   /\ call_args.file.kind = "json") =>
          /\ call_result = call_args.file.value
          /\ schema_cache[call_args.path] = call_args.file.value

-----------------------------------------------------------------------------
(* Properties of execute_curl, checked under SpecExecute *)

ExecuteCalled == call_fn = "execute_curl" /\ call_done

\* the command ran and wrote a header block, an empty line and a body
WroteResponse ==
    /\ call_args.kind = "completed"
    /\ call_args.returncode = 0
    /\ call_args.out.form = "response"

\* the request was executed and its first line states a status
StatusStated == WroteResponse /\ call_args.out.first.code # 0

\* C25: in every result (status_code, headers, body) of execute_curl,
\* status_code is None exactly when headers is None, which is exactly when
\* the command could not be executed, no boundary between headers and body
\* was found or the first line states no status; the third component is
\* then an error message that is not empty; otherwise status_code is the
\* number of three digits of the first line and the result is the output
\* split in headers and body.
C25_StatusNoneIffFailed ==
    ExecuteCalled =>
      /\ call_result.status_code = None <=> call_result.headers = None
      /\ call_result.status_code = None <=> ~StatusStated
      /\ ~StatusStated =>
            call_result.body.t = "str" /\ call_result.body.chars # <<>>
      /\ StatusStated =>
            /\ call_result.status_code = JInt(call_args.out.first.code)
            /\ call_result.headers.t = "str"
            /\ call_result.body.t = "str"
            /\ \E sep \in {<<"\n", "\n">>, <<"\r", "\n", "\r", "\n">>} :
                  call_result.headers.chars \o sep \o call_result.body.chars
                     = call_args.stdout

\* C25, its cases: a response of status 404 after two header lines, ...
C25_Witness ==
    /\ ExecuteCalled
    /\ StatusStated
    /\ call_args.out.first.code = 404
    /\ call_args.out.head # call_args.out.first.line
    /\ call_result.status_code = JInt(404)

\* ... and a command that ran and wrote a first line that states no status
C25_NoStatusWitness ==
    /\ ExecuteCalled
    /\ WroteResponse
    /\ call_args.out.first.code = 0
    /\ call_result.status_code = None
    /\ call_result.body = JStr(<<"Could not extract status code">>)

\* C26: when the command ran, execute_curl splits the output at its first
\* empty line, of either convention: headers is all that is before it and
\* body all that is after it, also when the body holds an empty line of the
\* other convention.  The code splits at the first LF LF of the whole
\* output before it looks for CRLF CRLF, so a response with CRLF lines is
\* split at an empty LF line of its body.
C26_SplitsAtFirstBoundary ==
    (ExecuteCalled /\ StatusStated) =>
      /\ call_result.headers = JStr(call_args.out.head)
      /\ call_result.body = JStr(call_args.out.body)

\* C26, the case that fails: CRLF lines, a body with an empty LF line, and
\* headers that hold the start of the body
C26_Witness ==
    /\ ExecuteCalled
    /\ StatusStated
    /\ call_args.out.eol = <<"\r", "\n">>
    /\ call_args.out.body = <<"[", "1", ",", "\n", "\n", "2", "]">>
    /\ call_result.headers # JStr(call_args.out.head)
    /\ call_result.body = JStr(<<"2", "]">>)

\* the output holds LF LF
HoldsLfLf(text) ==
    \E i \in 1..(Len(text) - 1) : text[i] = "\n" /\ text[i + 1] = "\n"

\* where the code splits: at the empty line that ends the headers, but for
\* CRLF lines before a body that holds LF LF
C26_AsCoded ==
    (ExecuteCalled /\ StatusStated) =>
      ((/\ call_result.headers = JStr(call_args.out.head)
        /\ call_result.body = JStr(call_args.out.body))
         <=> ~(/\ call_args.out.eol = <<"\r", "\n">>
               /\ HoldsLfLf(call_args.out.body)))


-----------------------------------------------------------------------------
(* Properties of the comparison stage, checked under SpecReport *)

ReportCalled == call_fn = "test_example.compare" /\ call_done

\* the places where the response differs from the documented list
DifferingPlaces ==
    {n \in DOMAIN call_args.response_json.items :
        call_args.response_json.items[n] # call_args.expected_json.items[n]}

\* the lines that list a difference, and the lines that tell of more
ListedLines ==
    SelectSeq(call_result.lines, LAMBDA l : Head(l.message) = "    * ")

MoreLines ==
    SelectSeq(call_result.lines, LAMBDA l : Head(l.message) = "  ... and ")

\* C27: of n > 0 differences the first min(n, 10) are listed, in the order
\* the comparator gave them; when n > 10 one more line, the last, tells of
\* the n - 10 left out, and when n <= 10 there is no such line; never more
\* than 10 are listed; and the example fails, whatever n is
C27_FirstTenListed ==
    ReportCalled /\ DifferingPlaces # {} =>
      LET n == Cardinality(DifferingPlaces)
          d == call_result.differences
          shown == IF n < 10 THEN n ELSE 10
      IN  /\ Len(d) = n
          /\ Len(ListedLines) = shown
          /\ Len(ListedLines) <= 10
          /\ \A i \in 1..shown :
                /\ ListedLines[i] = Line("info", <<"    * ">> \o d[i])
                /\ call_result.lines[2 + i] = ListedLines[i]
          /\ Len(MoreLines) = (IF n > 10 THEN 1 ELSE 0)
          /\ n > 10 =>
                /\ MoreLines[1] = Line("info", <<"  ... and ">>
                                     \o IntToStr(n - 10)
                                     \o <<" more differences">>)
                /\ call_result.lines[Len(call_result.lines)] = MoreLines[1]
          /\ call_result.returned = FALSE

\* twelve differences: ten listed and a line for the two left out
C27_Witness ==
    /\ ReportCalled
    /\ Cardinality(DifferingPlaces) = 12
    /\ Len(ListedLines) = 10
    /\ MoreLines = <<Line("info", <<"  ... and ", "2", " more differences">>)>>

\* exactly ten differences: all listed and no further line
C27_TenWitness ==
    /\ ReportCalled
    /\ Cardinality(DifferingPlaces) = 10
    /\ Len(ListedLines) = 10
    /\ MoreLines = <<>>

-----------------------------------------------------------------------------
(* Properties of the counters of test_file, checked under Spec *)

\* the entries handled so far with the given result
Handled(result) ==
    Cardinality({n \in DOMAIN outcomes : outcomes[n].result = result})

\* test_file has returned (total, passed, failed)
FileReturned == pc \in {"returned", "exited"} /\ tf # <<>> /\ tf.ret # <<>>

\* C28: a returned total is passed + failed; it is 0 when no entry was
\* handled and the number of declared entries otherwise; and all along
\* passed + failed is the number of entries handled so far, each entry
\* having added one to exactly one of the two counters
C28_CountersAddUp ==
    /\ pc # "idle" =>
          /\ tf.passed_tests = Handled("passed")
          /\ tf.failed_tests = Handled("failed")
          /\ tf.passed_tests + tf.failed_tests = Len(outcomes)
    /\ FileReturned =>
          /\ tf.ret[1] = tf.ret[2] + tf.ret[3]
          /\ tf.ret[2] = Handled("passed")
          /\ tf.ret[3] = Handled("failed")
          /\ outcomes = <<>> => tf.ret = <<0, 0, 0>>
          /\ (outcomes # <<>> /\ TestableOf.t = "list")
                => tf.ret[1] = Len(DeclaredEntries)

\* one step of the counters: an entry handled adds one to one counter and
\* leaves the other, and nothing else changes them
C28_OneCounterPerEntry ==
    [][/\ Len(outcomes') \in {Len(outcomes), Len(outcomes) + 1}
       /\ Len(outcomes') = Len(outcomes) + 1 =>
            \/ /\ tf'.passed_tests = tf.passed_tests + 1
               /\ tf'.failed_tests = tf.failed_tests
            \/ /\ tf'.passed_tests = tf.passed_tests
               /\ tf'.failed_tests = tf.failed_tests + 1
       /\ (Len(outcomes') = Len(outcomes) /\ fstate = "Testing") =>
            /\ tf'.passed_tests = tf.passed_tests
            /\ tf'.failed_tests = tf.failed_tests]_vars

\* a file of two entries has returned with one passed and one failed
C28_Witness ==
    /\ FileReturned
    /\ tf.ret = <<2, 1, 1>>
    /\ Len(DeclaredEntries) = 2

\* a file has returned without handling an entry
C28_NoTestsWitness ==
    /\ FileReturned
    /\ outcomes = <<>>
    /\ fstate = "NoTestableEntries"
=============================================================================
